---- MODULE Spec2Model ----
(***************************************************************************)
(* The review store of src/src/modules/reviewStore.ts: one JSON file that  *)
(* holds folders, records, record-folder links and events, read in full,   *)
(* repaired and written back in full by every public operation, with all   *)
(* operations funnelled through one promise chain (withStoreOp).           *)
(*                                                                         *)
(* Strings that the code trims, lower-cases or slices (folder names) are   *)
(* sequences of one-character strings, so that those conversions are       *)
(* computed.  Timestamps (nowISO) are readings of the clock `now`.  Of a   *)
(* record's text fields only title, literatureReview and rawAIResponse are *)
(* kept: the other draft fields are copied exactly as title is.  The       *)
(* createdAt/updatedAt of the store, of folders and of links, and the      *)
(* payload of events, are written but never read by the code modelled here *)
(* and are left out.                                                       *)
(***************************************************************************)
EXTENDS Integers, Sequences, FiniteSets, TLC

VARIABLES
    file,      \* the backing file: [text: "absent" | "empty" | "unparseable" | "json", data]
    now,       \* the clock read by nowISO()
    last,      \* the latest settled operation: name, arguments, outcome, the file before it
    created,   \* per folder-name key, what the calls of createFolder returned
    steps,     \* the number of operations settled so far
    tasks,     \* withStoreOp: the tasks chained so far, in invocation order
    opChain,   \* withStoreOp: the task the module-level opChain promise follows (0: resolved)
    ai         \* reviewAI: the routine under way, what it was given and what it has done

vars == <<file, now, last, created, steps, tasks, opChain, ai>>

\* ---------------------------------------------------------------- bounds
MaxSteps == 3
MaxNow == 1
MaxTasks == 3
MaxAfterSeed == 2

\* No routine of reviewAI is under way.
NoAI == [pc |-> "idle"]

\* ------------------------------------------------------- program constants
NameLimit == 100
STORE_SCHEMA_VERSION == 2

\* DEFAULT_FOLDER_NAME is a three-character CJK string: three symbols that
\* have no upper or lower case and are no white space.
DEFAULT_FOLDER_NAME == <<"wei", "fen", "lei">>
PROTECTED_FOLDER_NAMES == {DEFAULT_FOLDER_NAME}

\* ------------------------------------------------------------ JS strings
Min(a, b) == IF a < b THEN a ELSE b
Max(a, b) == IF a > b THEN a ELSE b

IsSpace(c) == c = " "

LowerChar(c) ==
    CASE c = "R" -> "r"
      [] c = "O" -> "o"
      [] c = "B" -> "b"
      [] c = "T" -> "t"
      [] c = "I" -> "i"
      [] c = "C" -> "c"
      [] c = "S" -> "s"
      [] c = "X" -> "x"
      [] c = "A" -> "a"
      [] OTHER -> c

toLowerCase(s) == [i \in 1..Len(s) |-> LowerChar(s[i])]

RECURSIVE trimStart(_)
trimStart(s) == IF s # <<>> /\ IsSpace(Head(s)) THEN trimStart(Tail(s)) ELSE s

RECURSIVE trimEnd(_)
trimEnd(s) ==
    IF s # <<>> /\ IsSpace(s[Len(s)]) THEN trimEnd(SubSeq(s, 1, Len(s) - 1)) ELSE s

trim(s) == trimEnd(trimStart(s))

\* s.slice(0, n)
slice(s, n) == SubSeq(s, 1, Min(n, Len(s)))

RECURSIVE Repeat(_, _)
Repeat(c, n) == IF n = 0 THEN <<>> ELSE <<c>> \o Repeat(c, n - 1)

\* ------------------------------------------------------------ JS arrays
\* Array.from(new Set(xs)): the first occurrence of each value, in order.
RECURSIVE Dedupe(_)
Dedupe(xs) ==
    IF xs = <<>> THEN <<>>
    ELSE LET init == Dedupe(SubSeq(xs, 1, Len(xs) - 1))
             x == xs[Len(xs)]
         IN IF \E i \in 1..Len(init) : init[i] = x THEN init ELSE Append(init, x)

Range(xs) == {xs[i] : i \in 1..Len(xs)}

IsPositive(v) == v > 0

normalizeIDList(ids) == Dedupe(SelectSeq(ids, IsPositive))

normalizePositiveIntegerList(ids) == Dedupe(SelectSeq(ids, IsPositive))

RECURSIVE maxIDFrom(_, _)
maxIDFrom(values, max) ==
    IF values = <<>> THEN max
    ELSE maxIDFrom(Tail(values), IF Head(values) > max THEN Head(values) ELSE max)

maxID(values) == maxIDFrom(values, 0)

IDsOf(xs) == [i \in 1..Len(xs) |-> xs[i].id]

\* ------------------------------------------------------- folder names
normalizeFolderName(name) == slice(trim(name), NameLimit)

\* The key both findFolderByName and the repair pass compare names by.
NameKey(name) == toLowerCase(trim(name))

\* An optional value: <<>> for null, <<v>> for v.
findFolderByID(store, id) ==
    LET hits == SelectSeq(store.folders, LAMBDA f : f.id = id)
    IN IF hits = <<>> THEN <<>> ELSE <<hits[1]>>

\* findFolderByName that compares the names as they are written.
findFolderByName_Exact(store, name) ==
    LET hits == SelectSeq(store.folders, LAMBDA f : f.name = name)
    IN IF hits = <<>> THEN <<>> ELSE <<hits[1]>>

findFolderByName(store, name) ==
    LET hits == SelectSeq(store.folders, LAMBDA f : NameKey(f.name) = NameKey(name))
    IN IF hits = <<>> THEN <<>> ELSE <<hits[1]>>

mapFolderRow(folder) == [id |-> folder.id, name |-> folder.name]

\* ------------------------------------------------------------- the store
createEmptyStoreData ==
    [schemaVersion |-> STORE_SCHEMA_VERSION,
     nextIDs |-> [folder |-> 1, record |-> 1, event |-> 1],
     folders |-> <<>>,
     records |-> <<>>,
     recordFolderLinks |-> <<>>,
     events |-> <<>>]

\* allocateID that raises the counter before it reads it.
allocateID_PreIncrement(store, key) ==
    [store |-> [store EXCEPT !.nextIDs[key] = @ + 1], id |-> store.nextIDs[key] + 1]

allocateID(store, key) ==
    LET raw == store.nextIDs[key]
        current == Max(1, IF raw = 0 THEN 1 ELSE raw)
    IN [store |-> [store EXCEPT !.nextIDs[key] = current + 1], id |-> current]

ensureDefaultFolder(store) ==
    LET found == findFolderByName(store, DEFAULT_FOLDER_NAME)
    IN IF found # <<>> THEN [store |-> store, folder |-> found[1]]
       ELSE LET a == allocateID(store, "folder")
                folder == [id |-> a.id, name |-> DEFAULT_FOLDER_NAME]
            IN [store |-> [a.store EXCEPT !.folders = Append(@, folder)],
                folder |-> folder]

addRecordFolderLink(store, recordID, folderID) ==
    IF \E i \in 1..Len(store.recordFolderLinks) :
           /\ store.recordFolderLinks[i].recordID = recordID
           /\ store.recordFolderLinks[i].folderID = folderID
    THEN store
    ELSE [store EXCEPT !.recordFolderLinks =
              Append(@, [recordID |-> recordID, folderID |-> folderID])]

\* normalizeOneRecord without the fall-back to the default folder.
normalizeOneRecord_NoFallback(acc, recordID, defaultID) ==
    LET store == acc.store
        links == SelectSeq(store.recordFolderLinks, LAMBDA l : l.recordID = recordID)
        hasDefault == \E i \in 1..Len(links) : links[i].folderID = defaultID
        hasNonDefault == \E i \in 1..Len(links) : links[i].folderID # defaultID
        kept == SelectSeq(store.recordFolderLinks,
                          LAMBDA l : ~(l.recordID = recordID /\ l.folderID = defaultID))
    IN IF links # <<>> /\ hasDefault /\ hasNonDefault
       THEN [store |-> [store EXCEPT !.recordFolderLinks = kept],
             changed |-> acc.changed \/ Len(kept) # Len(store.recordFolderLinks)]
       ELSE acc

\* normalizeOneRecord that keeps the default link beside the other links.
normalizeOneRecord_KeepDefault(acc, recordID, defaultID) ==
    IF SelectSeq(acc.store.recordFolderLinks, LAMBDA l : l.recordID = recordID) = <<>>
    THEN [store |-> addRecordFolderLink(acc.store, recordID, defaultID), changed |-> TRUE]
    ELSE acc

\* One turn of the loop of normalizeRecordFolderMemberships, for recordID.
normalizeOneRecord(acc, recordID, defaultID) ==
    LET store == acc.store
        links == SelectSeq(store.recordFolderLinks, LAMBDA l : l.recordID = recordID)
        hasDefault == \E i \in 1..Len(links) : links[i].folderID = defaultID
        hasNonDefault == \E i \in 1..Len(links) : links[i].folderID # defaultID
        kept == SelectSeq(store.recordFolderLinks,
                          LAMBDA l : ~(l.recordID = recordID /\ l.folderID = defaultID))
    IN IF links = <<>>
       THEN [store |-> addRecordFolderLink(store, recordID, defaultID), changed |-> TRUE]
       ELSE IF hasDefault /\ hasNonDefault
       THEN [store |-> [store EXCEPT !.recordFolderLinks = kept],
             changed |-> acc.changed \/ Len(kept) # Len(store.recordFolderLinks)]
       ELSE acc

RECURSIVE normalizeLoop(_, _, _)
normalizeLoop(acc, ids, defaultID) ==
    IF ids = <<>> THEN acc
    ELSE normalizeLoop(normalizeOneRecord(acc, Head(ids), defaultID), Tail(ids), defaultID)

\* recordIDs = <<>> stands for an absent or empty argument: both take every record.
normalizeRecordFolderMemberships(store, recordIDs) ==
    LET ids == IF Len(recordIDs) > 0 THEN normalizeIDList(recordIDs)
               ELSE IDsOf(store.records)
        d == ensureDefaultFolder(store)
    IN IF ids = <<>> THEN [store |-> store, changed |-> FALSE]
       ELSE normalizeLoop([store |-> d.store, changed |-> FALSE], ids, d.folder.id)

touchRecords(store, recordIDs, timestamp) ==
    LET idSet == Range(normalizeIDList(recordIDs))
    IN [store EXCEPT !.records =
            [i \in 1..Len(@) |->
                IF @[i].id \in idSet THEN [@[i] EXCEPT !.updatedAt = timestamp] ELSE @[i]]]

\* getRecordIDsByFolderIDsInternal that looks at the first folder only.
getRecordIDsByFolderIDsInternal_First(store, folderIDs) ==
    LET hits == SelectSeq(store.recordFolderLinks,
                          LAMBDA l : folderIDs # <<>> /\ l.folderID = folderIDs[1])
    IN Dedupe([i \in 1..Len(hits) |-> hits[i].recordID])

getRecordIDsByFolderIDsInternal(store, folderIDs) ==
    LET idSet == Range(normalizeIDList(folderIDs))
        hits == SelectSeq(store.recordFolderLinks, LAMBDA l : l.folderID \in idSet)
    IN Dedupe([i \in 1..Len(hits) |-> hits[i].recordID])

\* ------------------------------------------------ reading the file back
normalizeRecordType(value) == IF value = "folderSummary" THEN "folderSummary" ELSE "literature"

\* normalizeFolderRecord, on the folders that pass its test
FolderOK(value) == value.id > 0 /\ normalizeFolderName(value.name) # <<>>

normalizeFolderRecord(value) == [id |-> value.id, name |-> normalizeFolderName(value.name)]

\* normalizeReviewRecord, on the records that pass its test
RecordOK(value) == value.id > 0

normalizeReviewRecord(value) ==
    [value EXCEPT !.recordType = normalizeRecordType(@),
                  !.sourceRecordIDs = normalizeIDList(@),
                  !.sourceZoteroItemIDs = normalizePositiveIntegerList(@)]

\* normalizeRecordFolderLink, on the links that pass its test
LinkOK(value) == value.recordID > 0 /\ value.folderID > 0

\* normalizeStoreEvent, on the events that pass its test
EventOK(value) == value.id > 0

MapSeq(xs, Op(_)) == [i \in 1..Len(xs) |-> Op(xs[i])]

\* Number(raw) || fallback, then Math.max(1, ...)
NextIDOf(raw, fallback) == Max(1, IF raw # 0 THEN raw ELSE fallback)

normalizeStoreData(raw) ==
    LET folders == MapSeq(SelectSeq(raw.folders, FolderOK), normalizeFolderRecord)
        records == MapSeq(SelectSeq(raw.records, RecordOK), normalizeReviewRecord)
        recordFolderLinks == SelectSeq(raw.recordFolderLinks, LinkOK)
        events == SelectSeq(raw.events, EventOK)
    IN [schemaVersion |-> IF raw.schemaVersion # 0 THEN raw.schemaVersion
                          ELSE STORE_SCHEMA_VERSION,
        nextIDs |-> [folder |-> NextIDOf(raw.nextIDs.folder, maxID(IDsOf(folders)) + 1),
                     record |-> NextIDOf(raw.nextIDs.record, maxID(IDsOf(records)) + 1),
                     event |-> NextIDOf(raw.nextIDs.event, maxID(IDsOf(events)) + 1)],
        folders |-> folders,
        records |-> records,
        recordFolderLinks |-> recordFolderLinks,
        events |-> events]

\* ------------------------------------------------------- the repair pass
\* The link filter of ensureStoreIntegrity: both ends exist, first of each pair.
RECURSIVE FilterLinks(_, _, _, _)
FilterLinks(links, folderIDs, recordIDs, seen) ==
    IF links = <<>> THEN <<>>
    ELSE LET link == Head(links)
             key == <<link.recordID, link.folderID>>
         IN IF link.folderID \notin folderIDs \/ link.recordID \notin recordIDs
               \/ key \in seen
            THEN FilterLinks(Tail(links), folderIDs, recordIDs, seen)
            ELSE <<link>> \o FilterLinks(Tail(links), folderIDs, recordIDs, seen \cup {key})

\* The folder filter of ensureStoreIntegrity: a non-empty key, first of each key.
RECURSIVE FilterFolders(_, _)
FilterFolders(folders, seen) ==
    IF folders = <<>> THEN <<>>
    ELSE LET folder == Head(folders)
             key == NameKey(folder.name)
         IN IF key = <<>> \/ key \in seen
            THEN FilterFolders(Tail(folders), seen)
            ELSE <<folder>> \o FilterFolders(Tail(folders), seen \cup {key})

\* Math.max(store.nextIDs.k || 1, maxID(...) + 1)
RaiseNextID(raw, ids) == Max(IF raw # 0 THEN raw ELSE 1, maxID(ids) + 1)

\* The stages of ensureStoreIntegrity, each on the store and the changed flag
\* the stage before it left.  Creating the default folder sets no flag: the
\* test `!defaultFolder` of the code never holds.
withDefaultFolder(store) == [store |-> ensureDefaultFolder(store).store, changed |-> FALSE]

withValidLinks(acc) ==
    LET links == FilterLinks(acc.store.recordFolderLinks, Range(IDsOf(acc.store.folders)),
                             Range(IDsOf(acc.store.records)), {})
    IN [store |-> [acc.store EXCEPT !.recordFolderLinks = links],
        changed |-> acc.changed \/ Len(links) # Len(acc.store.recordFolderLinks)]

withUniqueFolders(acc) ==
    LET folders == FilterFolders(acc.store.folders, {})
    IN [store |-> [acc.store EXCEPT !.folders = folders],
        changed |-> acc.changed \/ Len(folders) # Len(acc.store.folders)]

orChanged(n, changed) == [store |-> n.store, changed |-> changed \/ n.changed]

withMemberships(acc) ==
    orChanged(normalizeRecordFolderMemberships(acc.store, <<>>), acc.changed)

withRaisedCounters(acc) ==
    [store |-> [acc.store EXCEPT
                  !.schemaVersion = STORE_SCHEMA_VERSION,
                  !.nextIDs = [folder |-> RaiseNextID(@.folder, IDsOf(acc.store.folders)),
                               record |-> RaiseNextID(@.record, IDsOf(acc.store.records)),
                               event |-> RaiseNextID(@.event, IDsOf(acc.store.events))]],
     changed |-> acc.changed]

ensureStoreIntegrity(store) ==
    withRaisedCounters(withMemberships(withUniqueFolders(withValidLinks(
        withDefaultFolder(store)))))

\* ------------------------------------------------------ load and save
AbsentFile == [text |-> "absent", data |-> createEmptyStoreData]

\* JSON.stringify keeps every value of the store (numbers, strings, arrays).
JSONFile(store) == [text |-> "json", data |-> store]

\* A file whose text JSON.parse rejects.
UnparseableFile == [text |-> "unparseable", data |-> createEmptyStoreData]

\* A file that is there and holds no text: `!text` holds as for no file.
EmptyFile == [text |-> "empty", data |-> createEmptyStoreData]

\* loadStoreData that saves the store it repaired, whatever the file held.
loadStoreData_AlwaysSaves(f) ==
    IF f.text \in {"absent", "empty"}
    THEN [store |-> ensureStoreIntegrity(createEmptyStoreData).store, wrote |-> TRUE]
    ELSE IF f.text = "json"
    THEN [store |-> ensureStoreIntegrity(normalizeStoreData(f.data)).store, wrote |-> TRUE]
    ELSE [store |-> ensureStoreIntegrity(createEmptyStoreData).store, wrote |-> TRUE]

\* loadStoreData that returns the fallback store without saving it.
loadStoreData_FallbackUnsaved(f) ==
    IF f.text \in {"absent", "empty"}
    THEN [store |-> ensureStoreIntegrity(createEmptyStoreData).store, wrote |-> TRUE]
    ELSE IF f.text = "json"
    THEN [store |-> ensureStoreIntegrity(normalizeStoreData(f.data)).store, wrote |-> FALSE]
    ELSE [store |-> ensureStoreIntegrity(createEmptyStoreData).store, wrote |-> FALSE]

\* The store loadStoreData returns, and whether it wrote the file on the way:
\* no text, a text that parses, and the catch of a text that does not.
loadStoreData(f) ==
    IF f.text \in {"absent", "empty"}
    THEN [store |-> ensureStoreIntegrity(createEmptyStoreData).store, wrote |-> TRUE]
    ELSE IF f.text = "json"
    THEN [store |-> ensureStoreIntegrity(normalizeStoreData(f.data)).store, wrote |-> FALSE]
    ELSE [store |-> ensureStoreIntegrity(createEmptyStoreData).store, wrote |-> TRUE]

\* -------------------------------------------------- operation outcomes
Null == <<>>

\* The body returned v; saved tells whether it called saveStoreData.
Returned(store, v, saved) == [store |-> store, threw |-> FALSE, ret |-> v, saved |-> saved]

\* A throw after saveStoreData.
Threw_AfterSave(store) == [store |-> store, threw |-> TRUE, ret |-> Null, saved |-> TRUE]

\* The body threw: nothing of its in-memory store is written.
Threw(store) == [store |-> store, threw |-> TRUE, ret |-> Null, saved |-> FALSE]

\* ------------------------------------------------------ folder operations
\* No folder is protected.
IsProtected_Never(folder) == FALSE

IsProtected(folder) == folder.name \in PROTECTED_FOLDER_NAMES

initReviewStore(s0) == Returned(ensureStoreIntegrity(s0).store, Null, ensureStoreIntegrity(s0).changed)

listFoldersOf(store) == Returned(store, <<MapSeq(store.folders, mapFolderRow)>>, FALSE)

listReviewFolders(s0) == listFoldersOf(ensureStoreIntegrity(s0).store)

defaultFolderOf(d, changed) == Returned(d.store, <<mapFolderRow(d.folder)>>, changed)

ensureDefaultReviewFolder(s0) ==
    defaultFolderOf(ensureDefaultFolder(ensureStoreIntegrity(s0).store),
                    ensureStoreIntegrity(s0).changed)

\* createReviewFolder after its repair pass
createFolderIn(store, name) ==
    LET normalized == normalizeFolderName(name)
        existing == findFolderByName(store, normalized)
        a == allocateID(store, "folder")
        folder == [id |-> a.id, name |-> normalized]
    IN IF normalized = <<>> THEN Threw(store)
       ELSE IF existing # <<>> THEN Returned(store, <<mapFolderRow(existing[1])>>, FALSE)
       ELSE Returned([a.store EXCEPT !.folders = Append(@, folder)],
                     <<mapFolderRow(folder)>>, TRUE)

createReviewFolder(s0, name) == createFolderIn(ensureStoreIntegrity(s0).store, name)

\* normalizeRecordFolderMemberships, touchRecords and the save that end an operation
finishMembership(store, recordIDs, t, v) ==
    Returned(touchRecords(normalizeRecordFolderMemberships(store, recordIDs).store,
                          recordIDs, t),
             v, TRUE)

\* deleteReviewFolder after its repair pass
deleteFolderIn(store, folderID, t) ==
    LET found == findFolderByID(store, folderID)
        affectedRecordIDs == getRecordIDsByFolderIDsInternal(store, <<folderID>>)
        s1 == [store EXCEPT
                 !.recordFolderLinks = SelectSeq(@, LAMBDA l : l.folderID # folderID),
                 !.folders = SelectSeq(@, LAMBDA f : f.id # folderID)]
    IN IF found = <<>> THEN Returned(store, Null, FALSE)
       ELSE IF IsProtected(found[1]) THEN Threw(store)
       ELSE finishMembership(s1, affectedRecordIDs, t, Null)

deleteReviewFolder(s0, folderID, t) ==
    deleteFolderIn(ensureStoreIntegrity(s0).store, folderID, t)

\* The link loop of a merge that links no record.
addLinks_None(store, recordIDs, folderID) == store

RECURSIVE addLinks(_, _, _)
addLinks(store, recordIDs, folderID) ==
    IF recordIDs = <<>> THEN store
    ELSE addLinks(addRecordFolderLink(store, Head(recordIDs), folderID),
                  Tail(recordIDs), folderID)

\* The source folders of a merge and their links leave the store.
withoutSources(store, sourceIDSet) ==
    IF sourceIDSet = {} THEN store
    ELSE [store EXCEPT
            !.recordFolderLinks = SelectSeq(@, LAMBDA l : l.folderID \notin sourceIDSet),
            !.folders = SelectSeq(@, LAMBDA f : f.id \notin sourceIDSet \/ IsProtected(f))]

\* The tail of mergeReviewFolders, once the destination folder is in the store.
mergeInto(store, validIDs, newFolder, t) ==
    LET affectedRecordIDs == getRecordIDsByFolderIDsInternal(store, validIDs)
        sourceIDSet == Range(SelectSeq(validIDs, LAMBDA id : id # newFolder.id))
    IN finishMembership(
           withoutSources(addLinks(store, affectedRecordIDs, newFolder.id), sourceIDSet),
           affectedRecordIDs, t, <<mapFolderRow(newFolder)>>)

\* mergeReviewFolders after its repair pass
mergeFoldersIn(store, folderIDs, newFolderName, t) ==
    LET validIDs == Dedupe(SelectSeq(folderIDs, LAMBDA id : id # 0))
        folders == SelectSeq(store.folders, LAMBDA f : f.id \in Range(validIDs))
        normalizedName == normalizeFolderName(newFolderName)
        existing == findFolderByName(store, normalizedName)
        a == allocateID(store, "folder")
        fresh == [id |-> a.id, name |-> normalizedName]
    IN IF Len(validIDs) < 2 THEN Threw(store)
       ELSE IF \E i \in 1..Len(folders) : IsProtected(folders[i]) THEN Threw(store)
       ELSE IF normalizedName = <<>> THEN Threw(store)
       ELSE IF existing # <<>> THEN mergeInto(store, validIDs, existing[1], t)
       ELSE mergeInto([a.store EXCEPT !.folders = Append(@, fresh)], validIDs, fresh, t)

mergeReviewFolders(s0, folderIDs, newFolderName, t) ==
    mergeFoldersIn(ensureStoreIntegrity(s0).store, folderIDs, newFolderName, t)

\* ------------------------------------------------------ record operations
\* A folder argument: undefined, null or a number.
Undefined == [tag |-> "undefined", id |-> 0]
NullFolder == [tag |-> "null", id |-> 0]
FolderNumber(n) == [tag |-> "number", id |-> n]

resolveTargetFolderID(store, folderID) ==
    IF folderID.tag = "number"
    THEN LET found == findFolderByID(store, folderID.id)
         IN IF found = <<>> THEN [store |-> store, threw |-> TRUE, id |-> 0]
            ELSE [store |-> store, threw |-> FALSE, id |-> found[1].id]
    ELSE LET d == ensureDefaultFolder(store)
         IN [store |-> d.store, threw |-> FALSE, id |-> d.folder.id]

FolderIDsOfRecord(store, recordID) ==
    {l.folderID : l \in {m \in Range(store.recordFolderLinks) : m.recordID = recordID}}

mapRecordWithFolders(store, record) ==
    LET ids == FolderIDsOfRecord(store, record.id) \cap Range(IDsOf(store.folders))
    IN [record |-> record,
        folderIDs |-> IF ids # {} THEN ids ELSE {ensureDefaultFolder(store).folder.id}]

\* The index of the first record that test accepts, 0 when there is none.
FindIndex(records, test(_)) ==
    IF \E i \in 1..Len(records) : test(records[i])
    THEN CHOOSE i \in 1..Len(records) :
             test(records[i]) /\ \A j \in 1..(i - 1) : ~test(records[j])
    ELSE 0

\* The end of upsertReviewRecord and of createFolderSummaryRecord: the
\* memberships of the one record, the save, the row returned.
returnRecord(store, record) == Returned(store, <<mapRecordWithFolders(store, record)>>, TRUE)

\* finishRecord without the pass over the memberships of the record.
finishRecord_NoMemberships(store, record) == returnRecord(store, record)

finishRecord(store, record) ==
    returnRecord(normalizeRecordFolderMemberships(store, <<record.id>>).store, record)

\* resolveTargetFolderID threw, or the record is linked to the folder it gave.
linkResolved(target, placed) ==
    IF target.threw THEN Threw(placed.store)
    ELSE finishRecord(addRecordFolderLink(target.store, placed.record.id, target.id),
                      placed.record)

\* The record of the draft written into the store: over the literature record
\* of the same zoteroItemID (at # 0), or as a new record.
overwriteRecord(old, draft, t) ==
    [old EXCEPT !.recordType = "literature",
                !.title = draft.title,
                !.literatureReview = draft.literatureReview,
                !.rawAIResponse = draft.rawAIResponse,
                !.sourceRecordIDs = <<>>,
                !.sourceZoteroItemIDs = <<>>,
                !.updatedAt = t]

newRecord(id, draft, t) ==
    [id |-> id,
     zoteroItemID |-> draft.zoteroItemID,
     recordType |-> "literature",
     title |-> draft.title,
     literatureReview |-> draft.literatureReview,
     rawAIResponse |-> draft.rawAIResponse,
     sourceRecordIDs |-> <<>>,
     sourceZoteroItemIDs |-> <<>>,
     createdAt |-> t,
     updatedAt |-> t]

pushRecord(a, record) ==
    [store |-> [a.store EXCEPT !.records = Append(@, record)], record |-> record]

\* placeRecord that never looks for the record of the same zoteroItemID.
placeRecord_AlwaysNew(store, at, draft, t) ==
    pushRecord(allocateID(store, "record"),
               newRecord(allocateID(store, "record").id, draft, t))

placeRecord(store, at, draft, t) ==
    IF at # 0
    THEN [store |-> [store EXCEPT !.records[at] = overwriteRecord(@, draft, t)],
          record |-> overwriteRecord(store.records[at], draft, t)]
    ELSE pushRecord(allocateID(store, "record"),
                    newRecord(allocateID(store, "record").id, draft, t))

upsertPlaced(placed, folderID) ==
    IF folderID.tag = "undefined" THEN finishRecord(placed.store, placed.record)
    ELSE linkResolved(resolveTargetFolderID(placed.store, folderID), placed)

\* upsertReviewRecord after its repair pass
upsertRecordIn(store, draft, folderID, t) ==
    upsertPlaced(
        placeRecord(store,
                    FindIndex(store.records,
                              LAMBDA r : /\ r.recordType # "folderSummary"
                                         /\ r.zoteroItemID = draft.zoteroItemID),
                    draft, t),
        folderID)

upsertReviewRecord(s0, draft, folderID, t) ==
    upsertRecordIn(ensureStoreIntegrity(s0).store, draft, folderID, t)

UnnamedFolder == <<"unnamed">>

\* summaryRecord that lists the source rows as given.
summaryRecord_RowsAsGiven(id, input, t) ==
    [id |-> id,
     zoteroItemID |-> 0,
     recordType |-> "folderSummary",
     title |-> <<"summary of">> \o trim(input.folderName) \o <<ToString(t)>>,
     literatureReview |-> trim(input.summaryText),
     rawAIResponse |-> trim(input.summaryText),
     sourceRecordIDs |-> MapSeq(input.sourceRows, LAMBDA row : row.id),
     sourceZoteroItemIDs |-> MapSeq(input.sourceRows, LAMBDA row : row.zoteroItemID),
     createdAt |-> t,
     updatedAt |-> t]

summaryRecord(id, input, t) ==
    LET normalizedFolderName ==
            IF trim(input.folderName) # <<>> THEN trim(input.folderName) ELSE UnnamedFolder
    IN [id |-> id,
        zoteroItemID |-> 0,
        recordType |-> "folderSummary",
        title |-> <<"summary of">> \o normalizedFolderName \o <<ToString(t)>>,
        literatureReview |-> trim(input.summaryText),
        rawAIResponse |-> trim(input.summaryText),
        sourceRecordIDs |-> normalizeIDList(MapSeq(input.sourceRows, LAMBDA row : row.id)),
        sourceZoteroItemIDs |->
            normalizePositiveIntegerList(
                MapSeq(input.sourceRows, LAMBDA row : row.zoteroItemID)),
        createdAt |-> t,
        updatedAt |-> t]

summaryPlaced(placed, folderID) ==
    linkResolved(resolveTargetFolderID(placed.store, folderID), placed)

\* createFolderSummaryRecord after its repair pass; folderID ?? null
folderSummaryIn(store, input, t) ==
    summaryPlaced(
        pushRecord(allocateID(store, "record"),
                   summaryRecord(allocateID(store, "record").id, input, t)),
        IF input.folderID.tag = "undefined" THEN NullFolder ELSE input.folderID)

createFolderSummaryRecord(s0, input, t) ==
    folderSummaryIn(ensureStoreIntegrity(s0).store, input, t)

RECURSIVE assignLoop(_, _, _)
assignLoop(store, ids, folderID) ==
    IF ids = <<>> THEN store
    ELSE assignLoop(IF Head(ids) \in Range(IDsOf(store.records))
                    THEN addRecordFolderLink(store, Head(ids), folderID)
                    ELSE store,
                    Tail(ids), folderID)

assignResolved(target, store, ids, t) ==
    IF target.threw THEN Threw(store)
    ELSE finishMembership(assignLoop(target.store, ids, target.id), ids, t, Null)

\* assignReviewRecordsFolder after its repair pass
assignFolderIn(store, recordIDs, folderID, t) ==
    IF normalizeIDList(recordIDs) = <<>> THEN Returned(store, Null, FALSE)
    ELSE assignResolved(resolveTargetFolderID(store, folderID), store,
                        normalizeIDList(recordIDs), t)

assignReviewRecordsFolder(s0, recordIDs, folderID, t) ==
    assignFolderIn(ensureStoreIntegrity(s0).store, recordIDs, folderID, t)

\* removeReviewRecordsFromFolder after its repair pass
removeFromFolderIn(store, recordIDs, folderID, t) ==
    LET ids == normalizeIDList(recordIDs)
        found == findFolderByID(store, folderID)
        s1 == [store EXCEPT !.recordFolderLinks =
                  SelectSeq(@, LAMBDA l : ~(l.folderID = found[1].id
                                            /\ l.recordID \in Range(ids)))]
    IN IF ids = <<>> THEN Returned(store, Null, FALSE)
       ELSE IF found = <<>> THEN Threw(store)
       ELSE IF IsProtected(found[1]) THEN Threw(store)
       ELSE finishMembership(s1, ids, t, Null)

removeReviewRecordsFromFolder(s0, recordIDs, folderID, t) ==
    removeFromFolderIn(ensureStoreIntegrity(s0).store, recordIDs, folderID, t)

\* pruneSources that leaves updatedAt as it was.
pruneSources_KeepTime(record, effectiveIDSet, removedZoteroItemIDs, t) ==
    [record EXCEPT
        !.sourceRecordIDs = SelectSeq(@, LAMBDA id : id \notin effectiveIDSet),
        !.sourceZoteroItemIDs = SelectSeq(@, LAMBDA id : id \notin removedZoteroItemIDs)]

\* The pruning loop of deleteReviewRecords, for one remaining record.
pruneSources(record, effectiveIDSet, removedZoteroItemIDs, t) ==
    LET nextSourceRecordIDs ==
            SelectSeq(record.sourceRecordIDs, LAMBDA id : id \notin effectiveIDSet)
        nextSourceItemIDs ==
            SelectSeq(record.sourceZoteroItemIDs, LAMBDA id : id \notin removedZoteroItemIDs)
    IN IF \/ Len(nextSourceRecordIDs) # Len(record.sourceRecordIDs)
          \/ Len(nextSourceItemIDs) # Len(record.sourceZoteroItemIDs)
       THEN [record EXCEPT !.sourceRecordIDs = nextSourceRecordIDs,
                           !.sourceZoteroItemIDs = nextSourceItemIDs,
                           !.updatedAt = t]
       ELSE record

\* deleteReviewRecords after its repair pass
deleteRecordsIn(store, recordIDs, t) ==
    LET effectiveIDs == SelectSeq(normalizeIDList(recordIDs),
                                  LAMBDA id : id \in Range(IDsOf(store.records)))
        effectiveIDSet == Range(effectiveIDs)
        removedZoteroItemIDs ==
            {r.zoteroItemID : r \in {q \in Range(store.records) :
                                        q.id \in effectiveIDSet /\ q.zoteroItemID > 0}}
        remaining == SelectSeq(store.records, LAMBDA r : r.id \notin effectiveIDSet)
    IN IF effectiveIDs = <<>> THEN Returned(store, <<0>>, FALSE)
       ELSE Returned(
                [store EXCEPT
                   !.records = MapSeq(remaining,
                       LAMBDA r : pruneSources(r, effectiveIDSet, removedZoteroItemIDs, t)),
                   !.recordFolderLinks =
                       SelectSeq(@, LAMBDA l : l.recordID \notin effectiveIDSet)],
                <<Len(effectiveIDs)>>, TRUE)

deleteReviewRecords(s0, recordIDs, t) ==
    deleteRecordsIn(ensureStoreIntegrity(s0).store, recordIDs, t)

rawResponseSet(record, rawAIResponse, t) ==
    [record EXCEPT !.rawAIResponse = rawAIResponse,
                   !.literatureReview =
                       IF record.recordType = "folderSummary" THEN rawAIResponse ELSE @,
                   !.updatedAt = t]

\* updateReviewRecordRawResponse after its repair pass
updateRawResponseIn(store, at, rawAIResponse, t) ==
    IF at = 0 THEN Returned(store, Null, FALSE)
    ELSE returnRecord([store EXCEPT !.records[at] = rawResponseSet(@, rawAIResponse, t)],
                      rawResponseSet(store.records[at], rawAIResponse, t))

rawResponseAt(store, recordID, rawAIResponse, t) ==
    updateRawResponseIn(store, FindIndex(store.records, LAMBDA r : r.id = recordID),
                        rawAIResponse, t)

updateReviewRecordRawResponse(s0, recordID, rawAIResponse, t) ==
    rawResponseAt(ensureStoreIntegrity(s0).store, recordID, rawAIResponse, t)

pushEvent(a, eventName, t) ==
    Returned([a.store EXCEPT !.events =
                 Append(@, [id |-> a.id,
                            eventName |-> IF eventName = "" THEN "unknown_event"
                                          ELSE eventName,
                            createdAt |-> t])],
             Null, TRUE)

\* Event names are given without surrounding white space.
trackReviewEvent(s0, eventName, t) ==
    pushEvent(allocateID(ensureStoreIntegrity(s0).store, "event"), eventName, t)

\* The clock counts TicksPerDay instants to a day: toISOString().slice(0, 10).
TicksPerDay == 2
dayOf(t) == t \div TicksPerDay

\* The events the daily limit counts.
isExtractionResult(e) == e.eventName \in {"ai_extraction_success", "ai_extraction_fail"}

RECURSIVE countToday(_, _)
countToday(events, t) ==
    IF events = <<>> THEN 0
    ELSE (IF isExtractionResult(Head(events)) /\ dayOf(Head(events).createdAt) = dayOf(t)
          THEN 1 ELSE 0) + countToday(Tail(events), t)

getTodayAIExtractionCount(s0, t) ==
    Returned(ensureStoreIntegrity(s0).store,
             <<countToday(ensureStoreIntegrity(s0).store.events, t)>>, FALSE)

\* ------------------------------------------------------------- inputs
Robotics == <<"R", "o", "b", "o", "t", "i", "c", "s">>
RoboticsShouted == <<" ", "R", "O", "B", "O", "T", "I", "C", "S", " ">>
Combined == <<"X">>
Second == <<"S">>
Third == <<"T">>
Blank == <<" ">>

\* One character more than the limit, with white space as the last character kept.
LongName == Repeat("a", NameLimit - 1) \o <<" ", "b">>

FolderNameInputs == {Robotics, RoboticsShouted, Combined, Blank, LongName, DEFAULT_FOLDER_NAME}

\* An id no counter reaches within MaxSteps operations.
MissingID == MaxSteps + 2

FolderIDInputs == 1..3

MergeInputs ==
    {<<<<2, 3>>, Combined>>, <<<<2, 3>>, Robotics>>, <<<<2, 3>>, DEFAULT_FOLDER_NAME>>,
     <<<<1, 2>>, Combined>>, <<<<2, 2>>, Combined>>, <<<<2, 3>>, Blank>>,
     <<<<2, 3>>, Third>>}

Draft(zoteroItemID, text) ==
    [zoteroItemID |-> zoteroItemID, title |-> <<"Paper", text>>,
     literatureReview |-> <<"review", text>>, rawAIResponse |-> <<"raw", text>>]

UpsertInputs ==
    {<<Draft(41, "A"), Undefined>>, <<Draft(41, "B"), Undefined>>,
     <<Draft(41, "A"), FolderNumber(2)>>, <<Draft(42, "A"), NullFolder>>,
     <<Draft(42, "B"), FolderNumber(3)>>}

AssignInputs ==
    {<<<<1>>, FolderNumber(2)>>, <<<<1>>, NullFolder>>, <<<<1, 2>>, FolderNumber(3)>>,
     <<<<MissingID>>, FolderNumber(2)>>}

RemoveInputs == {<<<<1>>, 2>>, <<<<1>>, 1>>, <<<<1, 2>>, 3>>}

DeleteRecordsInputs == {<<1>>, <<2, 1, 2>>}

SourceRow(id, zoteroItemID) == [id |-> id, zoteroItemID |-> zoteroItemID]

SummaryInputs ==
    {[folderID |-> Undefined, folderName |-> Robotics, summaryText |-> <<" ", "S">>,
      sourceRows |-> <<>>],
     [folderID |-> FolderNumber(2), folderName |-> Blank, summaryText |-> <<" ", "S">>,
      sourceRows |-> <<SourceRow(1, 41), SourceRow(2, 42), SourceRow(1, 41)>>]}

EventNameInputs == {"ai_extraction_success"}

\* ------------------------------------------- the operations, one at a time
\* A public operation run alone on the file: loadStoreData, its body, and the
\* file as the last saveStoreData of the operation left it.  At most MaxSteps
\* operations are run.
FileAfter(f, ld, r) ==
    IF r.saved THEN JSONFile(r.store) ELSE IF ld.wrote THEN JSONFile(ld.store) ELSE f

Writes(ld, r) == (IF ld.wrote THEN 1 ELSE 0) + (IF r.saved THEN 1 ELSE 0)

\* What the callers of createFolder have seen, one entry per name (trimmed,
\* lower-cased) whose folder is still in the store: the id the first call
\* returned, whether the name was in the store before that call, the number
\* of calls, whether every call returned that id, and the folders the calls
\* added between them.
CreatedAfter(before, store, op, args, r) ==
    LET kept == {c \in created : c.id \in Range(IDsOf(store.folders))}
        key == NameKey(args[1])
        added == Len(store.folders) - Len(before.folders)
        earlier == {c \in kept : c.key = key}
        entry(c) == [c EXCEPT !.calls = @ + 1,
                              !.same = @ /\ r.ret[1].id = c.id,
                              !.grew = @ + added]
        first == [key |-> key, id |-> r.ret[1].id,
                  existed |-> findFolderByName(before, args[1]) # <<>>,
                  calls |-> 1, same |-> TRUE, grew |-> added]
    IN IF op = "createFolder" /\ ~r.threw
       THEN (kept \ earlier) \cup (IF earlier = {} THEN {first}
                                   ELSE {entry(c) : c \in earlier})
       ELSE kept

\* The operation op(args) settles with outcome r, on the store ld read.
Outcome(op, args, ld, r) ==
    /\ file' = FileAfter(file, ld, r)
    /\ last' = [op |-> op, args |-> args, threw |-> r.threw, ret |-> r.ret,
                writes |-> Writes(ld, r), before |-> file]
    /\ created' = CreatedAfter(ld.store, FileAfter(file, ld, r).data, op, args, r)
    /\ UNCHANGED <<now, tasks, opChain, ai>>

\* A call of any caller; the calls of a scripted run come first (steps < 0).
Settle(op, args, ld, r) ==
    /\ steps >= 0
    /\ steps < MaxSteps
    /\ steps' = steps + 1
    /\ Outcome(op, args, ld, r)

InitReviewStore ==
    LET ld == loadStoreData(file)
    IN Settle("initReviewStore", <<>>, ld, initReviewStore(ld.store))

ListReviewFolders ==
    LET ld == loadStoreData(file)
    IN Settle("listFolders", <<>>, ld, listReviewFolders(ld.store))

EnsureDefaultReviewFolder ==
    LET ld == loadStoreData(file)
    IN Settle("ensureDefaultFolder", <<>>, ld, ensureDefaultReviewFolder(ld.store))

CreateReviewFolder ==
    \E name \in FolderNameInputs :
        LET ld == loadStoreData(file)
        IN Settle("createFolder", <<name>>, ld, createReviewFolder(ld.store, name))

DeleteReviewFolder ==
    \E folderID \in FolderIDInputs :
        LET ld == loadStoreData(file)
        IN Settle("deleteFolder", <<folderID>>, ld, deleteReviewFolder(ld.store, folderID, now))

MergeReviewFolders ==
    \E input \in MergeInputs :
        LET ld == loadStoreData(file)
        IN Settle("mergeFolders", input, ld,
                  mergeReviewFolders(ld.store, input[1], input[2], now))

UpsertReviewRecord ==
    \E input \in UpsertInputs :
        LET ld == loadStoreData(file)
        IN Settle("upsertRecord", input, ld,
                  upsertReviewRecord(ld.store, input[1], input[2], now))

CreateFolderSummaryRecord ==
    \E input \in SummaryInputs :
        LET ld == loadStoreData(file)
        IN Settle("createFolderSummaryRecord", <<input>>, ld,
                  createFolderSummaryRecord(ld.store, input, now))

AssignReviewRecordsFolder ==
    \E input \in AssignInputs :
        LET ld == loadStoreData(file)
        IN Settle("assignFolder", input, ld,
                  assignReviewRecordsFolder(ld.store, input[1], input[2], now))

RemoveReviewRecordsFromFolder ==
    \E input \in RemoveInputs :
        LET ld == loadStoreData(file)
        IN Settle("removeFromFolder", input, ld,
                  removeReviewRecordsFromFolder(ld.store, input[1], input[2], now))

DeleteReviewRecords ==
    \E recordIDs \in DeleteRecordsInputs :
        LET ld == loadStoreData(file)
        IN Settle("deleteRecords", <<recordIDs>>, ld,
                  deleteReviewRecords(ld.store, recordIDs, now))

UpdateReviewRecordRawResponse ==
    \E recordID \in {1} :
        LET ld == loadStoreData(file)
        IN Settle("updateRawResponse", <<recordID>>, ld,
                  updateReviewRecordRawResponse(ld.store, recordID, <<"edited">>, now))

TrackReviewEvent ==
    \E eventName \in EventNameInputs :
        LET ld == loadStoreData(file)
        IN Settle("trackEvent", <<eventName>>, ld, trackReviewEvent(ld.store, eventName, now))

Tick ==
    /\ now < MaxNow
    /\ now' = now + 1
    /\ UNCHANGED <<file, last, created, steps, tasks, opChain, ai>>

NoOperation ==
    [op |-> "none", args |-> <<>>, threw |-> FALSE, ret |-> Null, writes |-> 0,
     before |-> AbsentFile]

Init ==
    /\ file = AbsentFile
    /\ now = 0
    /\ last = NoOperation
    /\ created = {}
    /\ steps = 0
    /\ tasks = <<>>
    /\ opChain = 0
    /\ ai = NoAI

Next ==
    \/ InitReviewStore
    \/ ListReviewFolders
    \/ EnsureDefaultReviewFolder
    \/ CreateReviewFolder
    \/ DeleteReviewFolder
    \/ MergeReviewFolders
    \/ UpsertReviewRecord
    \/ CreateFolderSummaryRecord
    \/ AssignReviewRecordsFolder
    \/ RemoveReviewRecordsFromFolder
    \/ DeleteReviewRecords
    \/ UpdateReviewRecordRawResponse
    \/ TrackReviewEvent
    \/ Tick

Spec == Init /\ [][Next]_vars

\* ------------------------------------------------- the promise chain
\* Each call of a public operation is a task: withStoreOp chains its body
\* behind the promise opChain holds and puts a promise that follows the task
\* into opChain.  A body reads the file (and creates it when it is absent),
\* computes, and writes the file when it saves; reads and writes are awaited,
\* so steps of other callers come between them.  File reads and writes are
\* taken to succeed.
ChainOps ==
    {<<"createFolder", <<Robotics>>>>, <<"createFolder", <<Blank>>>>,
     <<"deleteFolder", <<1>>>>, <<"deleteFolder", <<2>>>>, <<"listFolders", <<>>>>}

\* The body fn of an operation, run on the store loadStoreData returned.
Body(op, args, s0, t) ==
    CASE op = "createFolder" -> createReviewFolder(s0, args[1])
      [] op = "deleteFolder" -> deleteReviewFolder(s0, args[1], t)
      [] op = "upsertRecord" -> upsertReviewRecord(s0, args[1], args[2], t)
      [] op = "assignFolder" -> assignReviewRecordsFolder(s0, args[1], args[2], t)
      [] op = "createFolderSummaryRecord" -> createFolderSummaryRecord(s0, args[1], t)
      [] op = "mergeFolders" -> mergeReviewFolders(s0, args[1], args[2], t)
      [] op = "removeFromFolder" -> removeReviewRecordsFromFolder(s0, args[1], args[2], t)
      [] op = "deleteRecords" -> deleteReviewRecords(s0, args[1], t)
      [] op = "updateRawResponse" ->
             updateReviewRecordRawResponse(s0, args[1], <<"edited">>, t)
      [] op = "trackEvent" -> trackReviewEvent(s0, args[1], t)
      [] op = "initReviewStore" -> initReviewStore(s0)
      [] op = "ensureDefaultFolder" -> ensureDefaultReviewFolder(s0)
      [] OTHER -> listReviewFolders(s0)

\* p.then(onFulfilled, onRejected) when p settles in state: a handler is
\* called, or the state passes through when there is none for it.
thenState(state, handlers) ==
    IF state = "fulfilled"
    THEN IF handlers.onFulfilled # "none" THEN "call" ELSE "fulfilled"
    ELSE IF handlers.onRejected # "none" THEN "call" ELSE "rejected"

\* opChain.then(fn, fn)
TaskHandlers == [onFulfilled |-> "fn", onRejected |-> "fn"]

\* task.then(() => undefined, () => undefined)
ChainHandlers == [onFulfilled |-> "undefined", onRejected |-> "undefined"]

NewTask(op, args, after) ==
    [op |-> op, args |-> args,
     after |-> after,       \* the task whose promise opChain held at the call
     pc |-> "pending",      \* pending, reading, creating, writing, fulfilled, rejected
     chain |-> "pending",   \* the promise this call put into opChain
     order |-> 0,           \* the position in which the body began
     foreign |-> 0,         \* reads and writes of other tasks while this body ran
     err |-> "none",        \* the origin of the rejection: body or chain
     r |-> <<>>]            \* the outcome of the body

\* withStoreOp that leaves opChain as it was.
withStoreOp_Unchained(ts, chain, op, args) ==
    [tasks |-> Append(ts, NewTask(op, args, chain)), opChain |-> chain]

withStoreOp(ts, chain, op, args) ==
    [tasks |-> Append(ts, NewTask(op, args, chain)), opChain |-> Len(ts) + 1]

\* The promise that opChain held at the call of task i is settled.
\* The variant: the body does not wait for it.
ChainSettled_Always(i) == TRUE

ChainSettled(i) ==
    IF tasks[i].after = 0 THEN TRUE ELSE tasks[tasks[i].after].chain # "pending"

ChainStateOf(i) == IF tasks[i].after = 0 THEN "fulfilled" ELSE tasks[tasks[i].after].chain

Running(i) == tasks[i].pc \in {"reading", "creating", "writing"}

HasSettled(i) == tasks[i].pc \in {"fulfilled", "rejected"}

\* Task i touches the file: every other running body sees a foreign access.
Touched(ts, i) ==
    [j \in 1..Len(ts) |->
        IF j # i /\ ts[j].pc \in {"reading", "creating", "writing"}
        THEN [ts[j] EXCEPT !.foreign = Min(@ + 1, MaxTasks)] ELSE ts[j]]

\* The body has the store in memory and runs to its throw, its save or its return.
Computed(task, f) ==
    LET r == Body(task.op, task.args, loadStoreData(f).store, now)
    IN [task EXCEPT !.r = <<r>>,
                    !.err = IF r.threw THEN "body" ELSE "none",
                    !.pc = IF r.threw THEN "rejected"
                           ELSE IF r.saved THEN "writing" ELSE "fulfilled"]

Invoke ==
    \E c \in ChainOps :
        /\ Len(tasks) < MaxTasks
        /\ tasks' = withStoreOp(tasks, opChain, c[1], c[2]).tasks
        /\ opChain' = withStoreOp(tasks, opChain, c[1], c[2]).opChain
        /\ UNCHANGED <<file, now, last, created, steps, ai>>

\* The promise before task i has settled: fn is called and asks for the file.
Begin ==
    \E i \in 1..Len(tasks) :
        /\ tasks[i].pc = "pending"
        /\ ChainSettled(i)
        /\ tasks' =
              IF thenState(ChainStateOf(i), TaskHandlers) = "call"
              THEN [tasks EXCEPT ![i].pc = "reading",
                                 ![i].order =
                                     1 + Cardinality({j \in 1..Len(tasks) :
                                                         tasks[j].order > 0})]
              ELSE [tasks EXCEPT ![i].pc = thenState(ChainStateOf(i), TaskHandlers),
                                 ![i].err = "chain"]
        /\ UNCHANGED <<file, now, last, created, steps, opChain, ai>>

\* tryReadTextFile returns: an absent file is created first.
ReadDone ==
    \E i \in 1..Len(tasks) :
        /\ tasks[i].pc = "reading"
        /\ tasks' = [Touched(tasks, i) EXCEPT
                        ![i] = IF file.text = "absent" THEN [@ EXCEPT !.pc = "creating"]
                               ELSE Computed(@, file)]
        /\ UNCHANGED <<file, now, last, created, steps, opChain, ai>>

\* The save of loadStoreData returns.
CreateDone ==
    \E i \in 1..Len(tasks) :
        /\ tasks[i].pc = "creating"
        /\ file' = JSONFile(loadStoreData(AbsentFile).store)
        /\ tasks' = [Touched(tasks, i) EXCEPT ![i] = Computed(@, AbsentFile)]
        /\ UNCHANGED <<now, last, created, steps, opChain, ai>>

\* The save of the body returns.
WriteDone ==
    \E i \in 1..Len(tasks) :
        /\ tasks[i].pc = "writing"
        /\ file' = JSONFile(tasks[i].r[1].store)
        /\ tasks' = [Touched(tasks, i) EXCEPT ![i].pc = "fulfilled"]
        /\ UNCHANGED <<now, last, created, steps, opChain, ai>>

\* The promise put into opChain follows its task.
ChainSettle ==
    \E i \in 1..Len(tasks) :
        /\ HasSettled(i)
        /\ tasks[i].chain = "pending"
        /\ tasks' = [tasks EXCEPT ![i].chain =
                        IF thenState(tasks[i].pc, ChainHandlers) = "call"
                        THEN "fulfilled"
                        ELSE thenState(tasks[i].pc, ChainHandlers)]
        /\ UNCHANGED <<file, now, last, created, steps, opChain, ai>>

NextChain ==
    \/ Invoke
    \/ Begin
    \/ ReadDone
    \/ CreateDone
    \/ WriteDone
    \/ ChainSettle

\* Some body waits for the file access that leaves it at pc.
Awaiting(pc) == \E i \in 1..Len(tasks) : tasks[i].pc = pc

\* The event loop runs every callback that is due, and every file read and
\* write returns: weak fairness of each step.  ReadDone, CreateDone and
\* WriteDone are enabled exactly when a body waits at their pc, and each
\* changes that pc, so their weak fairness is written out with Awaiting as
\* the enabling condition.
SpecChain ==
    /\ Init
    /\ [][NextChain]_vars
    /\ WF_vars(Begin)
    /\ WF_vars(ChainSettle)
    /\ []<>(~Awaiting("reading")) \/ []<><<ReadDone>>_vars
    /\ []<>(~Awaiting("creating")) \/ []<><<CreateDone>>_vars
    /\ []<>(~Awaiting("writing")) \/ []<><<WriteDone>>_vars

\* ------------------------------------------------- a store in use
\* A run of calls that fills the store: folders 2 (Robotics), 3 (S) and 4 (T);
\* records 1, 2, 3 in folder 2, records 3 and 4 in folder 3, record 1 also in
\* folder 4, and in folder 4 the summary 5 of records 1 and 3.
\* --------------------------------------------- a file written by others
\* The parts of a file that something other than the store wrote: folders
\* without the default folder or with names that differ in case only, links
\* to folders and records that are not there, records without links, and
\* counters behind the ids in use.
RawFolders ==
    {<<>>,
     <<[id |-> 1, name |-> DEFAULT_FOLDER_NAME]>>,
     <<[id |-> 1, name |-> Robotics]>>,
     <<[id |-> 2, name |-> Robotics]>>,
     <<[id |-> 1, name |-> DEFAULT_FOLDER_NAME], [id |-> 2, name |-> Robotics]>>,
     <<[id |-> 1, name |-> DEFAULT_FOLDER_NAME], [id |-> 2, name |-> Robotics],
       [id |-> 3, name |-> RoboticsShouted]>>}

RawRecords ==
    {<<>>, <<newRecord(1, Draft(41, "A"), 0)>>,
     <<newRecord(1, Draft(41, "A"), 0), newRecord(2, Draft(42, "A"), 0)>>}

RawLink(recordID, folderID) == [recordID |-> recordID, folderID |-> folderID]

RawLinks ==
    {<<>>, <<RawLink(1, 2)>>, <<RawLink(1, 3)>>, <<RawLink(1, 1), RawLink(1, 2)>>,
     <<RawLink(2, 9)>>, <<RawLink(1, 3), RawLink(2, 3), RawLink(1, 3)>>}

RawCounters ==
    {[folder |-> 1, record |-> 1, event |-> 1], [folder |-> 5, record |-> 5, event |-> 1]}

RawFiles ==
    {JSONFile([schemaVersion |-> STORE_SCHEMA_VERSION, nextIDs |-> nextIDs,
               folders |-> folders, records |-> records,
               recordFolderLinks |-> recordFolderLinks, events |-> <<>>]) :
        nextIDs \in RawCounters, folders \in RawFolders, records \in RawRecords,
        recordFolderLinks \in RawLinks}

InitRepair ==
    /\ file \in RawFiles
    /\ now = 0
    /\ last = [NoOperation EXCEPT !.before = file]
    /\ created = {}
    /\ steps = 0
    /\ tasks = <<>>
    /\ opChain = 0
    /\ ai = NoAI

\* The operations that repair the store and do nothing else to it.
NextRepair == InitReviewStore \/ ListReviewFolders \/ EnsureDefaultReviewFolder \/ Tick

SpecRepair == InitRepair /\ [][NextRepair]_vars

\* ------------------------------------------------------ listing records
\* The UTF-16 code unit a string comparison sees for a symbol (a word by its
\* first letter).
CodeUnit(c) ==
    CASE c = " " -> 32
      [] c = "0" -> 48
      [] c = "1" -> 49
      [] c = "Paper" -> 80
      [] c = "a" -> 97
      [] c = "b" -> 98
      [] c = "r" -> 114
      [] c = "s" -> 115
      [] c = "summary of" -> 115
      [] c = "t" -> 116
      [] c = "x" -> 120
      [] OTHER -> 22810

\* av < bv of two JS strings, given as their code units.
RECURSIVE StringLess(_, _)
StringLess(av, bv) ==
    IF bv = <<>> THEN FALSE
    ELSE IF av = <<>> THEN TRUE
    ELSE IF Head(av) # Head(bv) THEN Head(av) < Head(bv)
    ELSE StringLess(Tail(av), Tail(bv))

\* The filters of a listing: recordType ("all" when not given), folderID,
\* sortKey, sortDir, limit and offset (<<>> when not given); search is not
\* given.
Filters(recordType, folderID, sortKey, sortDir, limit, offset) ==
    [recordType |-> recordType, folderID |-> folderID, sortKey |-> sortKey,
     sortDir |-> sortDir, limit |-> limit, offset |-> offset]

applyRecordFilters(store, records, filters) ==
    LET allowed == {l.recordID : l \in {m \in Range(store.recordFolderLinks) :
                                            m.folderID = filters.folderID.id}}
    IN SelectSeq(records,
                 LAMBDA row :
                     /\ filters.recordType = "all" \/ row.recordType = filters.recordType
                     /\ filters.folderID.tag = "number" => row.id \in allowed)

\* String(record[k] || "").toLowerCase() of the sort key k; an ISO timestamp
\* is ordered as the clock reading it was made from.
SortValue(record, sortKey) ==
    IF sortKey = "title"
    THEN [i \in 1..Len(record.title) |-> CodeUnit(LowerChar(record.title[i]))]
    ELSE <<record.updatedAt>>

\* The comparator of sortRecords with ties left as they are.
compareRecords_NoTieBreak(a, b, filters) ==
    IF StringLess(SortValue(a, filters.sortKey), SortValue(b, filters.sortKey))
    THEN IF filters.sortDir = "asc" THEN 0 - 1 ELSE 1
    ELSE IF StringLess(SortValue(b, filters.sortKey), SortValue(a, filters.sortKey))
    THEN IF filters.sortDir = "asc" THEN 1 ELSE 0 - 1
    ELSE 0

\* The comparator of sortRecords.
compareRecords(a, b, filters) ==
    IF StringLess(SortValue(a, filters.sortKey), SortValue(b, filters.sortKey))
    THEN IF filters.sortDir = "asc" THEN 0 - 1 ELSE 1
    ELSE IF StringLess(SortValue(b, filters.sortKey), SortValue(a, filters.sortKey))
    THEN IF filters.sortDir = "asc" THEN 1 ELSE 0 - 1
    ELSE b.id - a.id

\* Array.prototype.sort is stable: x goes after the last element that is
\* not to come after it.
RECURSIVE insertRecord(_, _, _)
insertRecord(sorted, x, filters) ==
    IF sorted = <<>> THEN <<x>>
    ELSE IF compareRecords(sorted[Len(sorted)], x, filters) <= 0 THEN Append(sorted, x)
    ELSE Append(insertRecord(SubSeq(sorted, 1, Len(sorted) - 1), x, filters),
                sorted[Len(sorted)])

RECURSIVE sortRecords(_, _)
sortRecords(records, filters) ==
    IF records = <<>> THEN <<>>
    ELSE insertRecord(sortRecords(SubSeq(records, 1, Len(records) - 1), filters),
                      records[Len(records)], filters)

normalizePositiveInteger(value) ==
    IF value # <<>> /\ value[1] > 0 THEN value ELSE <<>>

normalizeNonNegativeInteger(value) ==
    IF value # <<>> /\ value[1] >= 0 THEN value ELSE <<>>

\* records.slice(start, end)
sliceRecords(records, start, end) == SubSeq(records, start + 1, Min(end, Len(records)))

paginateRecords(records, filters) ==
    LET limit == normalizePositiveInteger(filters.limit)
        offset == IF normalizeNonNegativeInteger(filters.offset) # <<>>
                  THEN filters.offset[1] ELSE 0
    IN IF limit = <<>> THEN sliceRecords(records, offset, Len(records))
       ELSE sliceRecords(records, offset, offset + limit[1])

\* listReviewRecords after its repair pass: the rows carry no rawAIResponse.
listRecordsOf(store, filters) ==
    Returned(store,
             MapSeq(paginateRecords(
                        sortRecords(applyRecordFilters(store, store.records, filters),
                                    filters), filters),
                    LAMBDA record :
                        mapRecordWithFolders(store, [record EXCEPT !.rawAIResponse = <<>>])),
             FALSE)

listReviewRecords(s0, filters) == listRecordsOf(ensureStoreIntegrity(s0).store, filters)

countRecordsOf(store, filters) ==
    Returned(store, <<Len(applyRecordFilters(store, store.records, filters))>>, FALSE)

countReviewRecords(s0, filters) == countRecordsOf(ensureStoreIntegrity(s0).store, filters)

NoNumber == <<>>

\* The filters the callers list and count with.
ListFilterInputs ==
    {Filters("all", Undefined, "updatedAt", "desc", NoNumber, NoNumber),
     Filters("all", Undefined, "title", "asc", <<2>>, <<2>>),
     Filters("literature", FolderNumber(2), "updatedAt", "asc", <<1>>, <<1>>),
     Filters("folderSummary", Undefined, "title", "desc", <<0>>, <<0 - 1>>)}

ListReviewRecords ==
    \E filters \in ListFilterInputs :
        LET ld == loadStoreData(file)
        IN Settle("listRecords", <<filters>>, ld, listReviewRecords(ld.store, filters))

CountReviewRecords ==
    \E filters \in ListFilterInputs :
        LET ld == loadStoreData(file)
        IN Settle("countRecords", <<filters>>, ld, countReviewRecords(ld.store, filters))

\* Something outside the store leaves a text in the file that does not parse,
\* or no text at all; no operation has run on that file yet.
Corrupt ==
    /\ file.text = "json"
    /\ steps >= 0
    /\ steps < MaxSteps
    /\ steps' = steps + 1
    /\ file' \in {UnparseableFile, EmptyFile}
    /\ last' = [NoOperation EXCEPT !.before = file']
    /\ UNCHANGED <<now, created, tasks, opChain, ai>>

NextCorrupt == Corrupt \/ Next

SpecCorrupt == Init /\ [][NextCorrupt]_vars

SeedCalls ==
    <<<<"createFolder", <<Robotics>>>>,
      <<"createFolder", <<Second>>>>,
      <<"createFolder", <<Third>>>>,
      <<"upsertRecord", <<Draft(41, "A"), FolderNumber(2)>>>>,
      <<"upsertRecord", <<Draft(42, "A"), FolderNumber(2)>>>>,
      <<"upsertRecord", <<Draft(43, "A"), FolderNumber(2)>>>>,
      <<"upsertRecord", <<Draft(44, "A"), FolderNumber(3)>>>>,
      <<"assignFolder", <<<<3>>, FolderNumber(3)>>>>,
      <<"assignFolder", <<<<1>>, FolderNumber(4)>>>>,
      <<"createFolderSummaryRecord",
        <<[folderID |-> FolderNumber(4), folderName |-> Third, summaryText |-> <<"S">>,
           sourceRows |-> <<SourceRow(1, 41), SourceRow(3, 43), SourceRow(1, 41)>>]>>>>>>

\* The next call of the run settles.
\* After the last one, MaxAfterSeed calls of any caller can follow.
SeedCall ==
    /\ steps < 0
    /\ steps' = IF steps = 0 - 1 THEN MaxSteps - MaxAfterSeed ELSE steps + 1
    /\ LET c == SeedCalls[Len(SeedCalls) + steps + 1]
           ld == loadStoreData(file)
       IN Outcome(c[1], c[2], ld, Body(c[1], c[2], ld.store, now))

\* The run starts on a new installation; the operations of Next follow it.
InitSeeded ==
    /\ file = AbsentFile
    /\ now = 0
    /\ last = NoOperation
    /\ created = {}
    /\ steps = 0 - Len(SeedCalls)
    /\ tasks = <<>>
    /\ opChain = 0
    /\ ai = NoAI

NextSeeded == SeedCall \/ Next

SpecSeeded == InitSeeded /\ [][NextSeeded]_vars

\* The store in use, with callers that change its records and callers that
\* list and count them.
NextListing ==
    \/ SeedCall
    \/ UpsertReviewRecord
    \/ AssignReviewRecordsFolder
    \/ DeleteReviewRecords
    \/ UpdateReviewRecordRawResponse
    \/ Tick
    \/ ListReviewRecords
    \/ CountReviewRecords

SpecListing == InitSeeded /\ [][NextListing]_vars

\* ------------------------------------------------------------ long texts
\* A long text is held as its runs of equal characters, in order: a run is a
\* character and how many times it is repeated. No run is empty and no two
\* neighbouring runs hold the same character.
Run(c, n) == [c |-> c, n |-> n]

RECURSIVE Canon(_)
Canon(runs) ==
    IF runs = <<>> THEN <<>>
    ELSE LET rest == Canon(Tail(runs))
             h == Head(runs)
         IN IF h.n = 0 THEN rest
            ELSE IF rest = <<>> THEN <<h>>
            ELSE IF rest[1].c = h.c THEN <<Run(h.c, h.n + rest[1].n)>> \o Tail(rest)
            ELSE <<h>> \o rest

\* String.prototype.length
RECURSIVE TextLength(_)
TextLength(text) == IF text = <<>> THEN 0 ELSE Head(text).n + TextLength(Tail(text))

\* a + b
Concat(a, b) == Canon(a \o b)

RECURSIVE TextDrop(_, _)
TextDrop(text, k) ==
    IF text = <<>> THEN <<>>
    ELSE IF k <= 0 THEN text
    ELSE IF Head(text).n <= k THEN TextDrop(Tail(text), k - Head(text).n)
    ELSE <<Run(Head(text).c, Head(text).n - k)>> \o Tail(text)

RECURSIVE TextTake(_, _)
TextTake(text, k) ==
    IF text = <<>> THEN <<>>
    ELSE IF k <= 0 THEN <<>>
    ELSE IF Head(text).n <= k THEN <<Head(text)>> \o TextTake(Tail(text), k - Head(text).n)
    ELSE <<Run(Head(text).c, k)>>

\* String.prototype.slice(from, to), for 0 <= from <= to
TextSlice(text, from, to) == TextTake(TextDrop(text, from), to - from)

\* The white space String.prototype.trim removes.
IsWhiteSpace(c) == c \in {" ", "\t", "\n", "\r"}

RECURSIVE TextTrimStart(_)
TextTrimStart(text) ==
    IF text = <<>> THEN <<>>
    ELSE IF IsWhiteSpace(Head(text).c) THEN TextTrimStart(Tail(text))
    ELSE text

RECURSIVE TextTrimEnd(_)
TextTrimEnd(text) ==
    IF text = <<>> THEN <<>>
    ELSE IF IsWhiteSpace(text[Len(text)].c) THEN TextTrimEnd(SubSeq(text, 1, Len(text) - 1))
    ELSE text

\* String.prototype.trim
TextTrim(text) == TextTrimEnd(TextTrimStart(text))

\* replace(/\r\n/g, "\n"): of the carriage returns before a line feed, the last goes.
RECURSIVE DropCarriageReturns(_)
DropCarriageReturns(text) ==
    IF Len(text) < 2 THEN text
    ELSE IF Head(text).c = "\r"
        THEN IF text[2].c = "\n"
             THEN <<Run("\r", Head(text).n - 1)>> \o DropCarriageReturns(Tail(text))
             ELSE <<Head(text)>> \o DropCarriageReturns(Tail(text))
    ELSE <<Head(text)>> \o DropCarriageReturns(Tail(text))

\* replace(/\u0000/g, " ")
BlankNulls(text) == [i \in 1..Len(text) |-> IF text[i].c = "NUL" THEN Run(" ", text[i].n) ELSE text[i]]

\* replace(/[ \t]+\n/g, "\n"): the blanks and tabs that end a line go.
RECURSIVE DropTrailingBlanks(_)
DropTrailingBlanks(text) ==
    IF text = <<>> THEN <<>>
    ELSE LET rest == DropTrailingBlanks(Tail(text))
         IN IF rest = <<>> THEN <<Head(text)>>
            ELSE IF Head(text).c \in {" ", "\t"}
                THEN IF rest[1].c = "\n" THEN rest ELSE <<Head(text)>> \o rest
            ELSE <<Head(text)>> \o rest

\* replace(/\n{3,}/g, "\n\n")
CapLineFeeds(text) ==
    [i \in 1..Len(text) |-> IF text[i].c = "\n" THEN Run("\n", Min(text[i].n, 2)) ELSE text[i]]

normalizeAttachmentText(text) ==
    TextTrim(CapLineFeeds(Canon(DropTrailingBlanks(Canon(BlankNulls(Canon(DropCarriageReturns(text))))))))

\* split(/\n{2,}/): the pieces between the runs of two line feeds or more.
RECURSIVE SplitOnBlankLines(_, _)
SplitOnBlankLines(text, piece) ==
    IF text = <<>> THEN <<piece>>
    ELSE IF Head(text).c = "\n"
        THEN IF Head(text).n >= 2
             THEN <<piece>> \o SplitOnBlankLines(Tail(text), <<>>)
             ELSE SplitOnBlankLines(Tail(text), Append(piece, Head(text)))
    ELSE SplitOnBlankLines(Tail(text), Append(piece, Head(text)))

\* filter(Boolean), of strings
NonEmptyTexts(texts) == SelectSeq(texts, LAMBDA t : t # <<>>)

\* ----------------------------------------------------- chunking a PDF text
EMBEDDING_MAX_CHUNKS == 12
EMBEDDING_CHUNK_CHARS == 1200

BlankLine == <<Run("\n", 2)>>

Paragraphs(normalized) ==
    LET pieces == SplitOnBlankLines(normalized, <<>>)
    IN NonEmptyTexts([i \in 1..Len(pieces) |-> TextTrim(pieces[i])])

\* flush, on the chunks and the text being packed
flush(st) ==
    LET next == TextTrim(st.current)
    IN [st EXCEPT !.chunks = IF next = <<>> THEN @ ELSE Append(@, next), !.current = <<>>]

isLongParagraph_Never(paragraph) == FALSE

\* paragraph.length > EMBEDDING_CHUNK_CHARS * 1.5
isLongParagraph(paragraph) == 2 * TextLength(paragraph) > 3 * EMBEDDING_CHUNK_CHARS

\* The inner loop: the slices of a long paragraph from position i on, until
\* the function returns from inside the loop (returned) or the paragraph ends.
RECURSIVE hardSplit(_, _, _)
hardSplit(st, paragraph, i) ==
    IF i >= TextLength(paragraph) THEN st
    ELSE LET pushed == [st EXCEPT !.chunks =
                           Append(@, TextTrim(TextSlice(paragraph, i, i + EMBEDDING_CHUNK_CHARS)))]
         IN IF Len(pushed.chunks) >= EMBEDDING_MAX_CHUNKS
            THEN [pushed EXCEPT !.returned = TRUE]
            ELSE hardSplit(pushed, paragraph, i + EMBEDDING_CHUNK_CHARS)

\* One paragraph that is not long: packed with the text at hand, or after it.
packParagraph(st, paragraph) ==
    LET candidate == IF st.current # <<>>
                     THEN Concat(Concat(st.current, BlankLine), paragraph)
                     ELSE paragraph
    IN IF TextLength(candidate) > EMBEDDING_CHUNK_CHARS
       THEN IF st.current # <<>>
            THEN [flush(st) EXCEPT !.current = paragraph]
            ELSE [st EXCEPT !.current = candidate]
       ELSE [st EXCEPT !.current = candidate]

\* The loop over the paragraphs, from the k-th on.
RECURSIVE chunkParagraphs(_, _, _)
chunkParagraphs(st, paragraphs, k) ==
    IF k > Len(paragraphs) THEN st
    ELSE IF isLongParagraph(paragraphs[k])
        THEN LET split == hardSplit(IF st.current # <<>> THEN flush(st) ELSE st, paragraphs[k], 0)
             IN IF split.returned THEN split ELSE chunkParagraphs(split, paragraphs, k + 1)
    ELSE LET packed == packParagraph(st, paragraphs[k])
         IN IF Len(packed.chunks) >= EMBEDDING_MAX_CHUNKS
            THEN packed
            ELSE chunkParagraphs(packed, paragraphs, k + 1)

chunkTextForEmbedding(text) ==
    LET normalized == normalizeAttachmentText(text)
        st == chunkParagraphs([chunks |-> <<>>, current |-> <<>>, returned |-> FALSE],
                              Paragraphs(normalized), 1)
        flushed == IF st.current # <<>>
                   THEN IF Len(st.chunks) < EMBEDDING_MAX_CHUNKS THEN flush(st) ELSE st
                   ELSE st
    IN IF normalized = <<>> THEN <<>>
       ELSE IF st.returned THEN NonEmptyTexts(st.chunks)
       ELSE SubSeq(NonEmptyTexts(flushed.chunks), 1,
                   Min(Len(NonEmptyTexts(flushed.chunks)), EMBEDDING_MAX_CHUNKS))

\* The state variables of the store.
storeVars == <<file, now, last, created, steps, tasks, opChain>>

\* No caller of the store has come yet.
StoreAtRest ==
    /\ file = AbsentFile
    /\ now = 0
    /\ last = NoOperation
    /\ created = {}
    /\ steps = 0
    /\ tasks = <<>>
    /\ opChain = 0

\* The PDF texts given to the chunker: up to MaxPages paragraphs of one length,
\* a blank line after each, then a last paragraph.
MaxPages == 12
PageLengths == {600, 1000}
LastLengths == {0, 1, 1199, 1200, 1201, 1500, 1800, 1801, 2000, 2400, 3000, 3600, 14400, 14401, 15000}

RECURSIVE Pages(_, _)
Pages(k, n) == IF k = 0 THEN <<>> ELSE <<Run("a", n), Run("\n", 2)>> \o Pages(k - 1, n)

PagedTexts ==
    {Canon(Pages(k, n) \o <<Run("a", m)>>) : k \in 0..MaxPages, n \in PageLengths, m \in LastLengths}

\* Texts with white space in them, around and inside the paragraphs.
SpacedTexts ==
    {<<Run(" ", 3), Run("a", 1200), Run(" ", 1200), Run("a", 1200), Run(" ", 2), Run("\n", 4)>>,
     <<Run("a", 700), Run("\r", 1), Run("\n", 1), Run("\r", 1), Run("\n", 1), Run("a", 700)>>,
     <<Run("a", 700), Run("\n", 1), Run("\t", 1), Run("\n", 1), Run("a", 700), Run("NUL", 1)>>,
     <<Run("\n", 5), Run(" ", 2)>>,
     <<Run("a", 1000), Run("\n", 1), Run("a", 1000)>>}

PDFTexts == PagedTexts \cup SpacedTexts

\* chunkTextForEmbedding is called with a PDF text.
ChunkTextForEmbedding ==
    /\ ai.pc = "chunking"
    /\ ai' = [pc |-> "chunked", text |-> ai.text, chunks |-> chunkTextForEmbedding(ai.text)]
    /\ UNCHANGED storeVars

InitChunking ==
    /\ StoreAtRest
    /\ ai \in {[pc |-> "chunking", text |-> t] : t \in PDFTexts}

NextChunking == ChunkTextForEmbedding

SpecChunking == InitChunking /\ [][NextChunking]_vars

\* ------------------------------------------------- ranking the PDF chunks
EMBEDDING_TOP_K == 4

\* What an embedding provider hands back for one text: an array of entries,
\* each a number, NaN or Infinity, or no array at all.
Num(v) == [kind |-> "number", v |-> v]
NaN == [kind |-> "NaN", v |-> 0]
Infinity == [kind |-> "Infinity", v |-> 0]
RawVector(items) == [kind |-> "array", items |-> items]
NoVector == [kind |-> "undefined", items |-> <<>>]

\* Number.isFinite
isFinite(e) == e.kind = "number"

\* Array.isArray(value) ? value.map(Number).filter(Number.isFinite) : []
toNumericVector(value) ==
    IF value.kind # "array" THEN <<>>
    ELSE LET finite == SelectSeq(value.items, isFinite)
         IN [i \in 1..Len(finite) |-> finite[i].v]

\* a[1]*b[1] + ... + a[size]*b[size]
RECURSIVE Dot(_, _, _)
Dot(a, b, size) == IF size = 0 THEN 0 ELSE a[size] * b[size] + Dot(a, b, size - 1)

\* A similarity dot / (sqrt(normA) * sqrt(normB)) is held exactly, as the
\* fraction num / den of its square with its sign: the order of two
\* similarities is the order of these fractions.
Similarity(dot, normA, normB) ==
    [num |-> IF dot < 0 THEN 0 - dot * dot ELSE dot * dot, den |-> normA * normB]

\* The similarity -1.
MinusOne == [num |-> 0 - 1, den |-> 1]

\* s < t, of two similarities
SimilarityLess(s, t) == s.num * t.den < t.num * s.den

cosineSimilarity(a, b) ==
    LET size == Min(Len(a), Len(b))
        normA == Dot(a, a, size)
        normB == Dot(b, b, size)
    IN IF size = 0 THEN MinusOne
       ELSE IF normA = 0 THEN MinusOne
       ELSE IF normB = 0 THEN MinusOne
       ELSE Similarity(Dot(a, b, size), normA, normB)

\* chunks.map(...).filter(Boolean): the chunks that came back with a vector,
\* from the index-th on (index counts from 0), each with its similarity.
RECURSIVE rankedFrom(_, _, _)
rankedFrom(queryVector, docVectorsRaw, index) ==
    IF index >= Len(docVectorsRaw) THEN <<>>
    ELSE LET vector == toNumericVector(docVectorsRaw[index + 1])
             rest == rankedFrom(queryVector, docVectorsRaw, index + 1)
         IN IF vector = <<>> THEN rest
            ELSE <<[index |-> index, score |-> cosineSimilarity(queryVector, vector)]>> \o rest

\* Array.prototype.sort is stable: x goes before the first entry it must precede.
RECURSIVE insertByScore(_, _)
insertByScore(sorted, x) ==
    IF sorted = <<>> THEN <<x>>
    ELSE IF SimilarityLess(Head(sorted).score, x.score) THEN <<x>> \o sorted
    ELSE <<Head(sorted)>> \o insertByScore(Tail(sorted), x)

\* sort((a, b) => b.score - a.score)
RECURSIVE sortByScore(_)
sortByScore(xs) ==
    IF xs = <<>> THEN <<>>
    ELSE insertByScore(sortByScore(SubSeq(xs, 1, Len(xs) - 1)), xs[Len(xs)])

RECURSIVE insertByIndex(_, _)
insertByIndex(sorted, x) ==
    IF sorted = <<>> THEN <<x>>
    ELSE IF x.index < Head(sorted).index THEN <<x>> \o sorted
    ELSE <<Head(sorted)>> \o insertByIndex(Tail(sorted), x)

\* sort((a, b) => a.index - b.index)
RECURSIVE sortByIndex(_)
sortByIndex(xs) ==
    IF xs = <<>> THEN <<>>
    ELSE insertByIndex(sortByIndex(SubSeq(xs, 1, Len(xs) - 1)), xs[Len(xs)])

\* ranked.sort(by score).slice(0, k).sort(by index)
selectTop(ranked, k) ==
    LET byScore == sortByScore(ranked)
    IN sortByIndex(SubSeq(byScore, 1, Min(k, Len(byScore))))

\* The part of tryBuildPDFEmbeddingContext after the two embedding calls: the
\* indexes of the chunks that make the context, or no context.
NoContext == [context |-> FALSE, selected |-> <<>>]

selectChunks(docVectorsRaw, queryVectorRaw) ==
    LET queryVector == toNumericVector(queryVectorRaw)
        ranked == rankedFrom(queryVector, docVectorsRaw, 0)
        selected == selectTop(ranked, EMBEDDING_TOP_K)
    IN IF queryVector = <<>> THEN NoContext
       ELSE IF ranked = <<>> THEN NoContext
       ELSE [context |-> TRUE, selected |-> [i \in 1..Len(selected) |-> selected[i].index]]

\* The vectors a provider hands back for the chunks and for the query.
MaxChunks == 5
DocVectors ==
    {RawVector(<<Num(1), Num(0)>>), RawVector(<<Num(0), Num(1)>>), RawVector(<<Num(7), Num(7)>>),
     RawVector(<<Num(0), Num(0)>>), RawVector(<<Num(1), Num(0), Num(3)>>),
     RawVector(<<NaN, Num(1), Num(0)>>), RawVector(<<Infinity>>), NoVector}
QueryVectors ==
    {RawVector(<<Num(1), Num(0)>>), RawVector(<<Num(3), Num(4)>>),
     RawVector(<<Num(1), NaN, Num(0)>>), RawVector(<<NaN>>)}

RECURSIVE SeqsOf(_, _)
SeqsOf(S, n) == IF n = 0 THEN {<<>>} ELSE {Append(s, x) : s \in SeqsOf(S, n - 1), x \in S}

\* The chunks are ranked against the query and the best are selected.
SelectChunks ==
    /\ ai.pc = "ranking"
    /\ ai' = [pc |-> "selected", docs |-> ai.docs, query |-> ai.query,
              result |-> selectChunks(ai.docs, ai.query)]
    /\ UNCHANGED storeVars

InitRanking ==
    /\ StoreAtRest
    /\ \E n \in 2..MaxChunks :
        ai \in {[pc |-> "ranking", docs |-> d, query |-> q] : d \in SeqsOf(DocVectors, n), q \in QueryVectors}

NextRanking == SelectChunks

SpecRanking == InitRanking /\ [][NextRanking]_vars

\* ------------------------------------------- capping the source content
MAX_SOURCE_CONTENT_CHARS == 100000

\* "\n[Embedding...]", the 17 characters that end a section cut short: a line
\* feed, a bracket, 14 characters that are no white space, a bracket.
TruncationMarker == <<Run("\n", 1), Run("[", 1), Run("M", 14), Run("]", 1)>>

appendCappedSection_Uncapped(base, section, maxChars) == Concat(base, section)

appendCappedSection(base, section, maxChars) ==
    LET allowed == Max(0, maxChars - TextLength(base) - 32)
    IN IF section = <<>> THEN base
       ELSE IF TextLength(base) + TextLength(section) <= maxChars THEN Concat(base, section)
       ELSE IF allowed = 0 THEN base
       ELSE Concat(Concat(base, TextSlice(section, 0, allowed)), TruncationMarker)

\* ------------------------------------ enriching the source content
\* "\n\n[PDF...1200...]", the 23 characters truncateText ends a cut text with.
TruncationNotice == <<Run("\n", 2), Run("[", 1), Run("N", 19), Run("]", 1)>>

truncateText(text, max) ==
    IF TextLength(text) <= max THEN text
    ELSE Concat(TextSlice(text, 0, max), TruncationNotice)

\* The label of the i-th excerpt, a bracketed two-character word with the
\* number i, and a blank.
ExcerptLabel(i) == <<Run("[", 1), Run("L", 2), Run(ToString(i), 1), Run("]", 1), Run(" ", 1)>>

\* selected.map((chunk, i) => label + truncateText(chunk.text, 1200)).join("\n\n"),
\* from the i-th selected chunk on
RECURSIVE excerptsFrom(_, _, _)
excerptsFrom(chunks, selected, i) ==
    IF i > Len(selected) THEN <<>>
    ELSE LET excerpt == Concat(ExcerptLabel(i), truncateText(chunks[selected[i] + 1], 1200))
         IN IF i = Len(selected) THEN excerpt
            ELSE Concat(Concat(excerpt, BlankLine), excerptsFrom(chunks, selected, i + 1))

\* ["", header, embeddingContext].join("\n"): the header is a line of 26
\* characters that are no white space.
sectionOf(embeddingContext) ==
    Concat(<<Run("\n", 1), Run("H", 26), Run("\n", 1)>>, embeddingContext)

\* What a block of code comes to: a value, or an exception.
Built(context) == [threw |-> FALSE, context |-> context]
Thrown == [threw |-> TRUE, context |-> <<>>]

caught_Rethrown(outcome) == outcome

\* try { ... } catch (e) { return "" }
caught(outcome) == IF outcome.threw THEN Built(<<>>) ELSE outcome

\* The enrichment after the context builder has come back.
enriched(source, built) ==
    IF built.threw THEN [threw |-> TRUE, content |-> <<>>]
    ELSE IF built.context = <<>> THEN [threw |-> FALSE, content |-> source.content]
    ELSE [threw |-> FALSE,
          content |-> appendCappedSection(source.content, sectionOf(built.context),
                                          MAX_SOURCE_CONTENT_CHARS)]

\* The builder comes back, and the enrichment with it; caughtError tells
\* whether the builder came back through its catch.
finish(a, outcome) ==
    [a EXCEPT !.pc = "returned",
              !.caughtError = outcome.threw,
              !.context = caught(outcome).context,
              !.result = enriched(a.source, caught(outcome))]

\* return source.content, before the builder is called
returnBase(a) ==
    [a EXCEPT !.pc = "returned", !.result = [threw |-> FALSE, content |-> a.source.content]]

\* A call under a timeout: the timer of setTimeout, the call itself, and the
\* promise the caller awaits with how often and with what it was settled.
NewWrapper(call) ==
    [call |-> call, timer |-> "pending", inner |-> "pending", settled |-> 0, with |-> "none"]

settleOnce_Again(w, how) == [w EXCEPT !.settled = @ + 1, !.with = how]

\* A promise is settled by the first resolve or reject; later ones do nothing.
settleOnce(w, how) == IF w.settled > 0 THEN w ELSE [w EXCEPT !.settled = 1, !.with = how]

clearTimeout_Skipped(w) == w

\* finally { clearTimeout(timer) }
clearTimeout(w) == [w EXCEPT !.timer = IF @ = "pending" THEN "cleared" ELSE @]

\* The call is made and awaited under a new timer.
issue(a, call) == [a EXCEPT !.pc = call, !.wrappers = Append(@, NewWrapper(call))]

tooFewChunks_Never(chunks) == FALSE

\* chunks.length < 2
tooFewChunks(chunks) == Len(chunks) < 2

\* tryBuildPDFEmbeddingContext / ...ViaAPI, up to the first await
startBuilder(a) ==
    LET chunks == chunkTextForEmbedding(a.source.pdfText)
    IN IF tooFewChunks(chunks) THEN finish(a, Built(<<>>))
       ELSE issue([a EXCEPT !.chunks = chunks], "documents")

\* enrichSourceContentWithPDFEmbeddings / ...WithConfiguredEmbeddings, up to
\* the first await
startEnrichment(a) ==
    IF a.source.pdfText = <<>> THEN returnBase(a)
    ELSE IF a.path = "api"
        THEN IF a.settings.provider # "openai" THEN returnBase(a)
             ELSE IF ~a.settings.hasKey THEN returnBase(a)
             ELSE startBuilder(a)
    ELSE IF ~a.bridge THEN finish(a, Built(<<>>))
    ELSE startBuilder(a)

\* An array of numbers as a provider's array.
asRaw(vector) == RawVector([i \in 1..Len(vector) |-> Num(vector[i])])

\* fetchOpenAIEmbeddings after fetchWithTimeout has come back with a response
fetchOpenAIEmbeddings(response) ==
    IF response.json = "unparseable" THEN [threw |-> TRUE, value |-> <<>>]
    ELSE IF ~response.ok THEN [threw |-> TRUE, value |-> <<>>]
    ELSE LET rows == sortByIndex(response.rows)
         IN [threw |-> FALSE,
             value |-> [i \in 1..Len(rows) |-> asRaw(toNumericVector(rows[i].embedding))]]

\* docVectorsRaw[index] for each chunk
vectorsForChunks(chunks, docVectorsRaw) ==
    [i \in 1..Len(chunks) |-> IF i <= Len(docVectorsRaw) THEN docVectorsRaw[i] ELSE NoVector]

\* The builder after the query call has come back.
rankAndRender(a, queryVectorRaw) ==
    LET picked == selectChunks(vectorsForChunks(a.chunks, a.docVectors), queryVectorRaw)
    IN IF picked.context
       THEN Built(excerptsFrom(a.chunks, picked.selected, 1))
       ELSE Built(<<>>)

\* Math.max(1, Math.min(100, Math.floor(Number(settings.embeddingBatchNum) || 1)))
batchSizeOf(settings) == Max(1, Min(100, settings.embeddingBatchNum))

\* The wrapper the builder awaits.
Active(a) == a.wrappers[Len(a.wrappers)]

\* The awaited call has come back before its timer: the timer is cleared and
\* the builder goes on, to the next call or to its end.
afterCall(a, outcome) ==
    LET w == clearTimeout(settleOnce([Active(a) EXCEPT !.inner = outcome.inner],
                                     IF outcome.inner = "fulfilled" THEN "result" ELSE "error"))
        b == [a EXCEPT !.wrappers[Len(a.wrappers)] = w]
        vectors == IF a.path = "api" THEN a.docVectors \o outcome.value ELSE outcome.value
        at == a.at + batchSizeOf(a.settings)
        c == [b EXCEPT !.docVectors = vectors, !.at = at]
    IN IF outcome.threw THEN finish(b, Thrown)
       ELSE IF a.pc = "documents"
           THEN IF a.path = "api"
                THEN IF at < Len(a.chunks) THEN issue(c, "documents") ELSE issue(c, "query")
                ELSE issue(c, "query")
       ELSE LET queryVectorRaw == IF outcome.value = <<>> THEN NoVector ELSE outcome.value[1]
            IN finish([b EXCEPT !.queryVector = queryVectorRaw], rankAndRender(b, queryVectorRaw))

\* The timer has fired before the call came back. On the bridge the race is
\* lost to the timer and the call goes on unheard; over HTTP the request is
\* aborted and its rejection is turned into the timeout error.
afterTimer(a) ==
    LET fired == [Active(a) EXCEPT !.timer = "fired",
                                   !.inner = IF a.path = "api" THEN "rejected" ELSE @]
        w == clearTimeout(settleOnce(fired, "timeout"))
    IN finish([a EXCEPT !.wrappers[Len(a.wrappers)] = w], Thrown)

\* The base contents and the sections appendCappedSection is given: contents
\* that leave much room below the cap, little, or none, and sections of a
\* header line and an excerpt, the section without text among them.
BaseLengths == {0, 500, 99000, 99900, 99966, 99967, 99968, 99969, 99983, 99984, 99990, 100000}
ExcerptLengths == {1, 3, 4, 5, 70, 72, 73, 100, 972, 973, 5000}

CappingBases ==
    {Canon(<<Run("c", n)>>) : n \in BaseLengths}
    \cup {<<Run("c", n - 1), Run("\n", 1)>> : n \in BaseLengths \ {0}}

CappingSections == {<<>>} \cup {sectionOf(<<Run("x", m)>>) : m \in ExcerptLengths}

\* appendCappedSection is called with a base content and a section.
AppendCappedSection ==
    /\ ai.pc = "capping"
    /\ ai' = [pc |-> "capped", base |-> ai.base, section |-> ai.section,
              combined |-> appendCappedSection(ai.base, ai.section, MAX_SOURCE_CONTENT_CHARS)]
    /\ UNCHANGED storeVars

InitCapping ==
    /\ StoreAtRest
    /\ ai \in {[pc |-> "capping", base |-> b, section |-> s] : b \in CappingBases, s \in CappingSections}

NextCapping == AppendCappedSection

SpecCapping == InitCapping /\ [][NextCapping]_vars

\* ---- the inputs of the enrichment
BaseContents == {<<Run("c", 500)>>, <<Run("c", 99000)>>}
SourcePDFTexts ==
    {<<>>,
     <<Run("a", 600)>>,
     <<Run("a", 1000), Run("\n", 2), Run("b", 1000)>>,
     <<Run("a", 1500), Run("\n", 2), Run("b", 700), Run("\n", 2), Run("a", 700)>>}
EmbeddingSettings ==
    [provider : {"openai", "gemini"}, hasKey : BOOLEAN, embeddingBatchNum : {2, 100}]
NoEmbeddingSettings == [provider |-> "none", hasKey |-> FALSE, embeddingBatchNum |-> 100]

Enrichment(path, source, bridge, settings) ==
    [pc |-> "start", path |-> path, source |-> source, bridge |-> bridge, settings |-> settings,
     chunks |-> <<>>, at |-> 0, docVectors |-> <<>>, queryVector |-> NoVector, wrappers |-> <<>>,
     caughtError |-> FALSE,
     context |-> <<>>, result |-> [threw |-> FALSE, content |-> <<>>]]

Sources == [content : BaseContents, pdfText : SourcePDFTexts]

Enrichments ==
    {Enrichment("bridge", s, b, NoEmbeddingSettings) : s \in Sources, b \in BOOLEAN}
    \cup {Enrichment("api", s, FALSE, e) : s \in Sources, e \in EmbeddingSettings}

\* What a provider can hand back for one text.
ReturnedVectors ==
    {RawVector(<<Num(1), Num(0)>>), RawVector(<<Num(0), Num(1)>>),
     RawVector(<<NaN, Num(1), Num(0)>>), NoVector}

\* The rows of a response for m texts, in order or not, and a response of no row.
RowsFor(m) ==
    {[i \in 1..m |-> [index |-> i - 1, embedding |-> v[i]]] : v \in SeqsOf(ReturnedVectors, m)}
    \cup {[i \in 1..m |-> [index |-> m - i, embedding |-> v[i]]] : v \in SeqsOf(ReturnedVectors, m)}
    \cup {<<>>}

\* How many texts the awaited call was given.
GivenTexts(a) ==
    IF a.pc = "query" THEN 1
    ELSE IF a.path = "api" THEN Min(batchSizeOf(a.settings), Len(a.chunks) - a.at)
    ELSE Len(a.chunks)

\* The ways the awaited call can come back before its timer.
Outcomes(a) ==
    IF a.path = "api"
    THEN {[inner |-> "rejected", threw |-> TRUE, value |-> <<>>]}
         \cup {LET got == fetchOpenAIEmbeddings(r)
               IN [inner |-> "fulfilled", threw |-> got.threw, value |-> got.value] :
               r \in {[ok |-> FALSE, json |-> "object", rows |-> <<>>],
                      [ok |-> TRUE, json |-> "unparseable", rows |-> <<>>]}
                     \cup {[ok |-> TRUE, json |-> "object", rows |-> rows] :
                             rows \in RowsFor(GivenTexts(a))}}
    ELSE {[inner |-> "rejected", threw |-> TRUE, value |-> <<>>]}
         \cup {[inner |-> "fulfilled", threw |-> FALSE, value |-> v] :
                 v \in SeqsOf(ReturnedVectors, GivenTexts(a)) \cup {<<>>}}

\* ---- the steps of the enrichment
Awaited == ai.pc \in {"documents", "query"}

StartEnrichment ==
    /\ ai.pc = "start"
    /\ ai' = startEnrichment(ai)
    /\ UNCHANGED storeVars

CallSettles ==
    /\ Awaited
    /\ \E outcome \in Outcomes(ai) : ai' = afterCall(ai, outcome)
    /\ UNCHANGED storeVars

TimerFires ==
    /\ Awaited
    /\ ai' = afterTimer(ai)
    /\ UNCHANGED storeVars

\* A call that lost the race to its timer comes back after all.
LateSettles ==
    /\ ai.pc \in {"returned", "aiCall"}
    /\ \E i \in 1..Len(ai.wrappers) : \E inner \in {"fulfilled", "rejected"} :
        /\ ai.wrappers[i].inner = "pending"
        /\ ai' = [ai EXCEPT !.wrappers[i] =
                     settleOnce([@ EXCEPT !.inner = inner],
                                IF inner = "fulfilled" THEN "result" ELSE "error")]
    /\ UNCHANGED storeVars

\* extractLiteratureReview goes on with what the enrichment came to.
Proceed ==
    /\ ai.pc = "returned"
    /\ ai' = [ai EXCEPT !.pc = IF ai.result.threw THEN "failed" ELSE "aiCall"]
    /\ UNCHANGED storeVars

InitEnrich ==
    /\ StoreAtRest
    /\ ai \in Enrichments

NextEnrich ==
    \/ StartEnrichment
    \/ CallSettles
    \/ TimerFires
    \/ LateSettles
    \/ Proceed

\* A timer that is pending fires in the end, unless the call comes back first.
SpecEnrich == InitEnrich /\ [][NextEnrich]_vars /\ WF_vars(TimerFires)

\* --------------------------------------------------- assembling the prompt
\* A prompt text is a sequence of symbols: a placeholder is one symbol, "$",
\* "&", "grave", "apostrophe" and the line feed are symbols of their own, and any other
\* symbol stands for a stretch of ordinary text.
SourceContentPlaceholder == "{{sourceContent}}"
SourceContentPlaceholder2 == "{{source_content}}"
FolderNamePlaceholder == "{{folderName}}"
RecordsContentPlaceholder == "{{recordsContent}}"

\* The default templates: the instructions, then the labelled placeholders.
DEFAULT_REVIEW_PROMPT_TEMPLATE ==
    <<"instructions", "\n", "\n", "source:", "\n", SourceContentPlaceholder>>
DEFAULT_FOLDER_SUMMARY_PROMPT_TEMPLATE ==
    <<"instructions", "\n", "\n", "folder:", FolderNamePlaceholder, "\n", "\n",
      "records:", "\n", RecordsContentPlaceholder>>

\* The text a replacement string stands for at one match: in the second
\* argument of String.prototype.replace, $$ is a dollar sign, $& the matched
\* text, $ with a grave accent the text before the match and $ with an
\* apostrophe the text after it.
RECURSIVE expandReplacement(_, _, _, _)
expandReplacement(replacement, matched, before, after) ==
    IF replacement = <<>> THEN <<>>
    ELSE IF Head(replacement) # "$"
        THEN <<Head(replacement)>> \o expandReplacement(Tail(replacement), matched, before, after)
    ELSE IF Len(replacement) = 1 THEN <<"$">>
    ELSE LET rest == expandReplacement(SubSeq(replacement, 3, Len(replacement)),
                                       matched, before, after)
         IN IF replacement[2] = "$" THEN <<"$">> \o rest
            ELSE IF replacement[2] = "&" THEN matched \o rest
            ELSE IF replacement[2] = "grave" THEN before \o rest
            ELSE IF replacement[2] = "apostrophe" THEN after \o rest
            ELSE <<"$">> \o expandReplacement(Tail(replacement), matched, before, after)

RECURSIVE replaceFrom(_, _, _, _)
replaceFrom(text, i, placeholder, replacement) ==
    IF i > Len(text) THEN <<>>
    ELSE IF text[i] = placeholder
        THEN expandReplacement(replacement, <<placeholder>>,
                               SubSeq(text, 1, i - 1), SubSeq(text, i + 1, Len(text)))
             \o replaceFrom(text, i + 1, placeholder, replacement)
    ELSE <<text[i]>> \o replaceFrom(text, i + 1, placeholder, replacement)

\* The text with the replacement, as it is, in the place of every placeholder.
replaceAll_Verbatim(text, placeholder, replacement) ==
    IF text = <<>> THEN <<>>
    ELSE LET pieces == [i \in 1..Len(text) |->
                           IF text[i] = placeholder THEN replacement ELSE <<text[i]>>]
             F[k \in 0..Len(text)] == IF k = 0 THEN <<>> ELSE F[k - 1] \o pieces[k]
         IN F[Len(text)]

\* text.replace(/placeholder/g, replacement)
replaceAll(text, placeholder, replacement) == replaceFrom(text, 1, placeholder, replacement)

\* /placeholder/.test(text)
hasPlaceholder(text, placeholder) == \E i \in 1..Len(text) : text[i] = placeholder

\* lines.join("\n")
RECURSIVE joinLines(_)
joinLines(lines) ==
    IF lines = <<>> THEN <<>>
    ELSE IF Len(lines) = 1 THEN lines[1]
    ELSE lines[1] \o <<"\n">> \o joinLines(Tail(lines))

buildPrompt(sourceContent, customPromptTemplate) ==
    LET template == trim(customPromptTemplate)
    IN IF template = <<>>
       THEN replaceAll(DEFAULT_REVIEW_PROMPT_TEMPLATE, SourceContentPlaceholder, sourceContent)
       ELSE IF hasPlaceholder(template, SourceContentPlaceholder)
             \/ hasPlaceholder(template, SourceContentPlaceholder2)
       THEN replaceAll(replaceAll(template, SourceContentPlaceholder, sourceContent),
                       SourceContentPlaceholder2, sourceContent)
       ELSE joinLines(<<template, <<>>, <<"source:">>, sourceContent>>)

buildFolderSummaryPrompt(folderName, recordsContent, customPromptTemplate) ==
    LET template == trim(customPromptTemplate)
        hasFolderPlaceholder == hasPlaceholder(template, FolderNamePlaceholder)
        hasRecordsPlaceholder == hasPlaceholder(template, RecordsContentPlaceholder)
        prompt == replaceAll(replaceAll(template, FolderNamePlaceholder, folderName),
                             RecordsContentPlaceholder, recordsContent)
        lines == <<prompt, <<>>,
                   IF hasFolderPlaceholder THEN <<>> ELSE <<"folder:">> \o folderName,
                   IF hasRecordsPlaceholder THEN <<>> ELSE <<"records:", "\n">> \o recordsContent>>
    IN IF template = <<>>
       THEN replaceAll(replaceAll(DEFAULT_FOLDER_SUMMARY_PROMPT_TEMPLATE,
                                  FolderNamePlaceholder, folderName),
                       RecordsContentPlaceholder, recordsContent)
       ELSE IF hasFolderPlaceholder /\ hasRecordsPlaceholder THEN prompt
       ELSE joinLines(SelectSeq(lines, LAMBDA line : line # <<>>))

\* The templates a user can have written, and the contents put into them.
ReviewTemplates ==
    {<<>>, <<" ">>, <<"w">>, <<"w", " ">>,
     <<"w", SourceContentPlaceholder>>,
     <<SourceContentPlaceholder, "w", SourceContentPlaceholder>>,
     <<"w", SourceContentPlaceholder2, "v">>,
     <<SourceContentPlaceholder, "w", SourceContentPlaceholder2>>}
FolderTemplates ==
    {<<>>, <<"w">>,
     <<"w", FolderNamePlaceholder>>,
     <<"w", RecordsContentPlaceholder, "v">>,
     <<FolderNamePlaceholder, "w", RecordsContentPlaceholder>>,
     <<RecordsContentPlaceholder, "w", FolderNamePlaceholder>>}
Contents ==
    {<<"s">>, <<"s", "\n", "t">>, <<"s", "$", "$", "t">>, <<"$", "&">>, <<"s", "$", "grave">>,
     <<"$", "apostrophe", "s">>, <<"s", "$", "1">>, <<"s", "$">>, <<SourceContentPlaceholder2, "s">>}
FolderNames == {<<"f">>, <<"f", "$", "&">>, <<RecordsContentPlaceholder>>}

\* buildPrompt is called with a source content and the user's template.
BuildPrompt ==
    /\ ai.pc = "prompting"
    /\ ai.kind = "review"
    /\ ai' = [ai EXCEPT !.pc = "prompted",
                        !.prompt = buildPrompt(ai.content, ai.template)]
    /\ UNCHANGED storeVars

\* buildFolderSummaryPrompt is called with a folder's name, its records'
\* content and the user's template.
BuildFolderSummaryPrompt ==
    /\ ai.pc = "prompting"
    /\ ai.kind = "folder"
    /\ ai' = [ai EXCEPT !.pc = "prompted",
                        !.prompt = buildFolderSummaryPrompt(ai.folderName, ai.content, ai.template)]
    /\ UNCHANGED storeVars

InitPrompt ==
    /\ StoreAtRest
    /\ ai \in {[pc |-> "prompting", kind |-> "review", template |-> t, folderName |-> <<>>,
                content |-> c, prompt |-> <<>>] : t \in ReviewTemplates, c \in Contents}
              \cup {[pc |-> "prompting", kind |-> "folder", template |-> t, folderName |-> f,
                     content |-> c, prompt |-> <<>>] :
                     t \in FolderTemplates, f \in FolderNames, c \in Contents}

NextPrompt == BuildPrompt \/ BuildFolderSummaryPrompt

SpecPrompt == InitPrompt /\ [][NextPrompt]_vars

\* ------------------------------------------- the embedding timeouts
GPT_PLUGIN_TIMEOUT_FLOOR_SECONDS == 600
DEFAULT_TIMEOUT_SECONDS == 600

\* A preference as getPref returns it: a number, or nothing.
PrefNumber(n) == [kind |-> "number", n |-> n]
PrefUnset == [kind |-> "unset", n |-> 0]

\* normalizeInt: Number(value), the fallback when that is not finite, and
\* Math.max(1, Math.floor(n)) otherwise (the numbers here are whole).
normalizeInt(value, fallback) ==
    IF value.kind # "number" THEN fallback ELSE Max(1, value.n)

\* settings.timeoutSeconds as getReviewSettings reads it from the preference
timeoutSecondsOf(pref) ==
    Max(DEFAULT_TIMEOUT_SECONDS, normalizeInt(pref, DEFAULT_TIMEOUT_SECONDS))

\* Math.max(1, Math.floor(Number(timeoutSeconds) || 0)), raised to the floor
getCompatibleGPTTimeoutSeconds(timeoutSeconds) ==
    Max(GPT_PLUGIN_TIMEOUT_FLOOR_SECONDS, Max(1, timeoutSeconds))

\* The bridge timeout without its clamp.
bridgeEmbedTimeoutSeconds_Unclamped(timeoutSeconds) == timeoutSeconds

\* embedTimeoutSeconds of tryBuildPDFEmbeddingContext
bridgeEmbedTimeoutSeconds(timeoutSeconds) == Max(20, Min(45, timeoutSeconds))

\* embedTimeoutSeconds of tryBuildPDFEmbeddingContextViaAPI
apiEmbedTimeoutSeconds(settingsTimeoutSeconds) == Max(20, Min(120, settingsTimeoutSeconds))

\* The seconds fetchOpenAIEmbeddings hands to fetchWithTimeout.
fetchTimeoutSeconds(settingsTimeoutSeconds, timeoutSeconds) ==
    Max(10, Min(settingsTimeoutSeconds, timeoutSeconds))

\* The seconds after which the timer of an embedding call fires, on the path
\* through the plugin bridge (extractByCompatibleGPTPlugin) and on the path
\* over HTTP (enrichSourceContentWithConfiguredEmbeddings).
embeddingTimeoutSeconds(path, settingsTimeoutSeconds) ==
    IF path = "bridge"
    THEN bridgeEmbedTimeoutSeconds(getCompatibleGPTTimeoutSeconds(settingsTimeoutSeconds))
    ELSE fetchTimeoutSeconds(settingsTimeoutSeconds,
                             apiEmbedTimeoutSeconds(settingsTimeoutSeconds))

\* The values of the timeoutSeconds preference: none, and whole numbers from
\* below 1 to above the default.
MaxPrefTimeout == 700
PrefTimeouts == {PrefUnset} \cup {PrefNumber(n) : n \in (0 - 5)..MaxPrefTimeout}

\* An extraction reads the settings and reaches its embedding calls: each is
\* made under a timer of ai.seconds * 1000 milliseconds.
SetEmbeddingTimeout ==
    /\ ai.pc = "configured"
    /\ ai' = [pc |-> "timed", pref |-> ai.pref, path |-> ai.path,
              timeoutSeconds |-> timeoutSecondsOf(ai.pref),
              seconds |-> embeddingTimeoutSeconds(ai.path, timeoutSecondsOf(ai.pref))]
    /\ UNCHANGED storeVars

InitTimeout ==
    /\ StoreAtRest
    /\ ai \in {[pc |-> "configured", pref |-> p, path |-> path] :
                 p \in PrefTimeouts, path \in {"bridge", "api"}}

NextTimeout == SetEmbeddingTimeout

SpecTimeout == InitTimeout /\ [][NextTimeout]_vars

\* ------------------------------------------------- the extraction
\* source.content.length > MAX_SOURCE_CONTENT_CHARS that never holds.
tooLong_Never(content) == FALSE

\* source.content.length > MAX_SOURCE_CONTENT_CHARS
tooLong(content) == TextLength(content) > MAX_SOURCE_CONTENT_CHARS

\* throw new ReviewUserError(...)
fail(a, error) == [a EXCEPT !.pc = "failed", !.error = error]

\* await detectAwesomeGPTAsync(), the extraction waiting at pc
detect(a, pc) == [a EXCEPT !.pc = pc, !.detections = @ + 1]

\* extractByCompatibleGPTPlugin, up to its first await
extractByCompatibleGPTPlugin(a) == detect(a, "detecting")

\* extractLiteratureReview once buildItemSource has assembled the source, up
\* to the first await after it
extractLiteratureReview(a) ==
    IF tooLong(a.source.content) THEN fail(a, "tooLong")
    ELSE IF a.modelConfigMode = "awesomegpt" THEN extractByCompatibleGPTPlugin(a)
    ELSE IF ~a.hasConfiguredAPI THEN detect(a, "fallbackDetecting")
    ELSE IF a.settings.provider = "openai" THEN startEnrichment([a EXCEPT !.path = "api"])
    ELSE [a EXCEPT !.pc = "aiCall"]

\* detectAwesomeGPTAsync has come back: in extractLiteratureReview (no API
\* configured) and at the head of extractByCompatibleGPTPlugin.
afterDetection(a) ==
    IF a.pc = "fallbackDetecting"
    THEN IF a.detection.installed /\ a.detection.callable
         THEN extractByCompatibleGPTPlugin(a)
         ELSE fail(a, "configMissing")
    ELSE IF ~a.detection.installed THEN fail(a, "notFound")
    ELSE IF ~a.detection.callable THEN fail(a, "notCallable")
    ELSE startEnrichment([a EXCEPT !.path = "bridge"])

\* ---- the inputs of the extraction
\* Source contents one character below the cap, at the cap and one above it,
\* and a short one.
ContentLengths == {500, MAX_SOURCE_CONTENT_CHARS - 1, MAX_SOURCE_CONTENT_CHARS,
                   MAX_SOURCE_CONTENT_CHARS + 1}

ExtractionSources ==
    [content : {<<Run("c", n)>> : n \in ContentLengths},
     pdfText : {<<>>, <<Run("a", 1000), Run("\n", 2), Run("b", 1000)>>}]

\* What detectAwesomeGPTAsync finds.
Detections ==
    {[installed |-> FALSE, callable |-> FALSE], [installed |-> TRUE, callable |-> FALSE],
     [installed |-> TRUE, callable |-> TRUE]}

\* getReviewSettings and getEffectiveReviewAPISettings fix the mode to "custom"
\* and the provider to "openai".
Extraction(source, bridge, hasKey, hasConfiguredAPI, detection) ==
    [pc |-> "extract", path |-> "none", source |-> source, bridge |-> bridge,
     settings |-> [provider |-> "openai", hasKey |-> hasKey, embeddingBatchNum |-> 100],
     chunks |-> <<>>, at |-> 0, docVectors |-> <<>>, queryVector |-> NoVector, wrappers |-> <<>>,
     caughtError |-> FALSE,
     context |-> <<>>, result |-> [threw |-> FALSE, content |-> <<>>],
     modelConfigMode |-> "custom", hasConfiguredAPI |-> hasConfiguredAPI,
     detection |-> detection, detections |-> 0, error |-> "none"]

Extractions ==
    {Extraction(s, b, k, c, d) :
        s \in ExtractionSources, b \in BOOLEAN, k \in BOOLEAN, c \in BOOLEAN, d \in Detections}

\* ---- the steps of the extraction
ExtractLiteratureReview ==
    /\ ai.pc = "extract"
    /\ ai' = extractLiteratureReview(ai)
    /\ UNCHANGED storeVars

DetectionSettles ==
    /\ ai.pc \in {"fallbackDetecting", "detecting"}
    /\ ai' = afterDetection(ai)
    /\ UNCHANGED storeVars

InitExtract ==
    /\ StoreAtRest
    /\ ai \in Extractions

NextExtract ==
    \/ ExtractLiteratureReview
    \/ DetectionSettles
    \/ CallSettles
    \/ TimerFires
    \/ LateSettles
    \/ Proceed

SpecExtract == InitExtract /\ [][NextExtract]_vars

\* ------------------------------------------- extraction from the selection
\* handleExtractFromSelection, one run per invocation. Each run is at an
\* await: of a store operation (which settles alone, the operations being
\* chained), of extractLiteratureReview, or of the result dialog.
MaxRuns == 2
MaxDailyLimit == 2

\* How many regular items are selected when the handler is invoked.
SelectionSizes == {0, 1, 2, 6}

NewRun(n) ==
    [pc |-> IF n = 0 \/ n > 5 THEN "done" ELSE "init", n |-> n, at |-> 1,
     todayCount |-> 0, folderID |-> 0]

\* A store operation of a run settles: the file as the operation leaves it.
StoreCall(op, args, ld, r) ==
    /\ file' = FileAfter(file, ld, r)
    /\ last' = [op |-> op, args |-> args, threw |-> r.threw, ret |-> r.ret,
                writes |-> Writes(ld, r), before |-> file]
    /\ UNCHANGED <<now, created, steps, tasks, opChain>>

\* await trackReviewEvent(eventName, ...) of a run
trackCall(eventName) ==
    StoreCall("trackEvent", <<eventName>>, loadStoreData(file),
              trackReviewEvent(loadStoreData(file).store, eventName, now))

\* The run r goes to pc.
goTo(r, pc) == ai' = [ai EXCEPT !.runs[r].pc = pc]

\* todayCount >= settings.dailyLimit, or todayCount + items.length > settings.dailyLimit
overLimit(todayCount, n, dailyLimit) ==
    todayCount >= dailyLimit \/ todayCount + n > dailyLimit

\* The item is done: the single run returns, the batch goes to its next item.
afterItem(run) ==
    IF run.n = 1 \/ run.at >= run.n THEN [run EXCEPT !.pc = "done"]
    ELSE [run EXCEPT !.pc = "extract", !.at = @ + 1]

HandleExtractFromSelection ==
    /\ ai.pc = "selection"
    /\ Len(ai.runs) < MaxRuns
    /\ \E n \in SelectionSizes : ai' = [ai EXCEPT !.runs = Append(@, NewRun(n))]
    /\ UNCHANGED storeVars

\* await initReviewStore()
StoreInitialized ==
    /\ ai.pc = "selection"
    /\ \E r \in 1..Len(ai.runs) :
        /\ ai.runs[r].pc = "init"
        /\ StoreCall("initReviewStore", <<>>, loadStoreData(file),
                     initReviewStore(loadStoreData(file).store))
        /\ goTo(r, "count")

\* await getTodayAIExtractionCount(), and the two tests of the limit
TodayCounted ==
    /\ ai.pc = "selection"
    /\ \E r \in 1..Len(ai.runs) :
        /\ ai.runs[r].pc = "count"
        /\ StoreCall("getTodayAIExtractionCount", <<>>, loadStoreData(file),
                     getTodayAIExtractionCount(loadStoreData(file).store, now))
        /\ ai' = [ai EXCEPT !.runs[r].todayCount = last'.ret[1],
                            !.runs[r].pc = IF overLimit(last'.ret[1], ai.runs[r].n, ai.dailyLimit)
                                           THEN "done" ELSE "click"]

\* await trackReviewEvent("ai_extraction_click", ...)
ClickTracked ==
    /\ ai.pc = "selection"
    /\ \E r \in 1..Len(ai.runs) :
        /\ ai.runs[r].pc = "click"
        /\ trackCall("ai_extraction_click")
        /\ goTo(r, IF ai.runs[r].n = 1 THEN "extract" ELSE "folder")

\* await resolveBatchSaveFolder(): with no folder remembered, the default folder
BatchFolderResolved ==
    /\ ai.pc = "selection"
    /\ \E r \in 1..Len(ai.runs) :
        /\ ai.runs[r].pc = "folder"
        /\ StoreCall("ensureDefaultFolder", <<>>, loadStoreData(file),
                     ensureDefaultReviewFolder(loadStoreData(file).store))
        /\ ai' = [ai EXCEPT !.runs[r].pc = "extract", !.runs[r].folderID = last'.ret[1].id]

\* await extractLiteratureReview(item): a draft, or an error
ExtractionSettles ==
    /\ ai.pc = "selection"
    /\ \E r \in 1..Len(ai.runs) : \E ok \in BOOLEAN :
        /\ ai.runs[r].pc = "extract"
        /\ goTo(r, IF ~ok THEN "fail" ELSE IF ai.runs[r].n = 1 THEN "success" ELSE "upsert")
    /\ UNCHANGED storeVars

\* await upsertReviewRecord(draft, { folderID }) of the batch
DraftSaved ==
    /\ ai.pc = "selection"
    /\ \E r \in 1..Len(ai.runs) :
        /\ ai.runs[r].pc = "upsert"
        /\ StoreCall("upsertRecord",
                     <<Draft(40 + ai.runs[r].at, "A"), FolderNumber(ai.runs[r].folderID)>>,
                     loadStoreData(file),
                     upsertReviewRecord(loadStoreData(file).store, Draft(40 + ai.runs[r].at, "A"),
                                        FolderNumber(ai.runs[r].folderID), now))
        /\ goTo(r, IF last'.threw THEN "fail" ELSE "success")

\* await trackReviewEvent("ai_extraction_success", ...)
SuccessTracked ==
    /\ ai.pc = "selection"
    /\ \E r \in 1..Len(ai.runs) :
        /\ ai.runs[r].pc = "success"
        /\ trackCall("ai_extraction_success")
        /\ ai' = [ai EXCEPT !.runs[r] = IF @.n = 1 THEN [@ EXCEPT !.pc = "dialog"]
                                         ELSE afterItem(@)]

\* await openReviewResultDialog(draft): it opens, or it throws into the catch
DialogSettles ==
    /\ ai.pc = "selection"
    /\ \E r \in 1..Len(ai.runs) : \E ok \in BOOLEAN :
        /\ ai.runs[r].pc = "dialog"
        /\ goTo(r, IF ok THEN "done" ELSE "fail")
    /\ UNCHANGED storeVars

\* await trackReviewEvent("ai_extraction_fail", ...) of the catch
FailTracked ==
    /\ ai.pc = "selection"
    /\ \E r \in 1..Len(ai.runs) :
        /\ ai.runs[r].pc = "fail"
        /\ trackCall("ai_extraction_fail")
        /\ ai' = [ai EXCEPT !.runs[r] = afterItem(@)]

\* A store that logged one extraction the day before.
YesterdayFile ==
    JSONFile(trackReviewEvent(loadStoreData(AbsentFile).store, "ai_extraction_success",
                              TicksPerDay - 1).store)

InitSelection ==
    /\ file \in {AbsentFile, YesterdayFile}
    /\ now = TicksPerDay
    /\ last = [NoOperation EXCEPT !.before = file]
    /\ created = {}
    /\ steps = 0
    /\ tasks = <<>>
    /\ opChain = 0
    /\ ai \in {[pc |-> "selection", dailyLimit |-> limit, runs |-> <<>>] :
                 limit \in 1..MaxDailyLimit}

NextSelection ==
    \/ HandleExtractFromSelection
    \/ StoreInitialized
    \/ TodayCounted
    \/ ClickTracked
    \/ BatchFolderResolved
    \/ ExtractionSettles
    \/ DraftSaved
    \/ SuccessTracked
    \/ DialogSettles
    \/ FailTracked

SpecSelection == InitSelection /\ [][NextSelection]_vars

\* ------------------------------------------------ the folder synthesis
\* The click handler of btnFolderSummary in the review manager: the records
\* of the folder are listed, synthesizeFolderReview is awaited, and the summary
\* is saved with the rows listed. The manager is at an await, or at rest.
SummaryFilters(folder) ==
    Filters("literature", FolderNumber(folder.id), "updatedAt", "desc", NoNumber, NoNumber)

\* sourceRows: allRows.map((row) => ({ id: row.id, zoteroItemID: row.zoteroItemID }))
sourceRowsOf(allRows) ==
    [i \in 1..Len(allRows) |-> SourceRow(allRows[i].record.id, allRows[i].record.zoteroItemID)]

summaryInput(targetFolder, allRows) ==
    [folderID |-> FolderNumber(targetFolder.id), folderName |-> targetFolder.name,
     summaryText |-> <<"S">>, sourceRows |-> sourceRowsOf(allRows)]

\* resolveFolderForSummary(ctx): a folder the manager shows, or none
FolderSummaryClicked ==
    /\ ai.pc = "manager"
    /\ ai.at = "idle"
    /\ \E target \in {<<>>} \cup {<<mapFolderRow(f)>> : f \in Range(loadStoreData(file).store.folders)} :
        ai' = [ai EXCEPT !.at = IF target = <<>> THEN "done" ELSE "listing",
                         !.targetFolder = target]
    /\ UNCHANGED storeVars

\* await listReviewRecords({ folderID, recordType: "literature", ... })
RowsListed ==
    /\ ai.pc = "manager"
    /\ ai.at = "listing"
    /\ LET ld == loadStoreData(file)
           r == listReviewRecords(ld.store, SummaryFilters(ai.targetFolder[1]))
       IN /\ file' = FileAfter(file, ld, r)
          /\ last' = [op |-> "listRecords", args |-> <<SummaryFilters(ai.targetFolder[1])>>,
                      threw |-> r.threw, ret |-> r.ret, writes |-> Writes(ld, r),
                      before |-> file]
          /\ ai' = [ai EXCEPT !.at = IF r.ret = <<>> THEN "done" ELSE "synthesizing",
                              !.allRows = r.ret]
    /\ UNCHANGED <<now, created, steps, tasks, opChain>>

\* await synthesizeFolderReview(...): a text, or an error for the catch
SynthesisSettles ==
    /\ ai.pc = "manager"
    /\ ai.at = "synthesizing"
    /\ \E ok \in BOOLEAN : ai' = [ai EXCEPT !.at = IF ok THEN "saving" ELSE "done"]
    /\ UNCHANGED storeVars

\* await createFolderSummaryRecord({ ..., sourceRows })
SummarySaved ==
    /\ ai.pc = "manager"
    /\ ai.at = "saving"
    /\ StoreCall("createFolderSummaryRecord", <<summaryInput(ai.targetFolder[1], ai.allRows)>>,
                 loadStoreData(file),
                 createFolderSummaryRecord(loadStoreData(file).store,
                                           summaryInput(ai.targetFolder[1], ai.allRows), now))
    /\ ai' = [ai EXCEPT !.at = "done"]

\* A store with the records 1 and 2 in the default folder.
SynthesisFile ==
    JSONFile(upsertReviewRecord(
                 upsertReviewRecord(loadStoreData(AbsentFile).store,
                                    Draft(41, "A"), NullFolder, 0).store,
                 Draft(42, "A"), NullFolder, 0).store)

InitSynthesis ==
    /\ file = SynthesisFile
    /\ now = 0
    /\ last = [NoOperation EXCEPT !.before = file]
    /\ created = {}
    /\ steps = 0
    /\ tasks = <<>>
    /\ opChain = 0
    /\ ai = [pc |-> "manager", at |-> "idle", targetFolder |-> <<>>, allRows |-> <<>>]

\* The manager's flow, and callers that delete records and add them meanwhile.
NextSynthesis ==
    \/ FolderSummaryClicked
    \/ RowsListed
    \/ SynthesisSettles
    \/ SummarySaved
    \/ DeleteReviewRecords
    \/ UpsertReviewRecord
    \/ CreateReviewFolder
    \/ Tick

SpecSynthesis == InitSynthesis /\ [][NextSynthesis]_vars

\* --------------------------------------------------------------- claims
\* The store as the file holds it, and as it held it before the latest operation.
Store == file.data
StoreBefore == last.before.data

FolderIDs(store) == Range(IDsOf(store.folders))

DefaultIDs(store) == {f.id : f \in {g \in Range(store.folders) : g.name = DEFAULT_FOLDER_NAME}}

Settled(op) == last.op = op /\ ~last.threw

\* C1: every record of the store has a link to a folder of the store, and a
\* record whose only link deleteFolder or removeFromFolder removed is then
\* linked to the default folder alone.
C1_EveryRecordLinked ==
    /\ \A r \in Range(Store.records) :
           FolderIDsOfRecord(Store, r.id) \cap FolderIDs(Store) # {}
    /\ Settled("deleteFolder") =>
           \A r \in Range(Store.records) :
               FolderIDsOfRecord(StoreBefore, r.id) = {last.args[1]}
                   => FolderIDsOfRecord(Store, r.id) = DefaultIDs(Store)
    /\ Settled("removeFromFolder") =>
           \A r \in Range(Store.records) :
               /\ r.id \in Range(last.args[1])
               /\ FolderIDsOfRecord(StoreBefore, r.id) = {last.args[2]}
               => FolderIDsOfRecord(Store, r.id) = DefaultIDs(Store)

C1_Witness ==
    /\ Settled("deleteFolder")
    /\ \E r \in Range(Store.records) :
           /\ FolderIDsOfRecord(StoreBefore, r.id) = {last.args[1]}
           /\ last.args[1] \notin DefaultIDs(StoreBefore)
           /\ FolderIDsOfRecord(Store, r.id) = DefaultIDs(Store)
           /\ Cardinality(DefaultIDs(Store)) = 1

\* C2: no record is linked to the default folder and to another folder, and
\* a record that was in the default folder alone and is given a non-default
\* folder by assignFolder or upsertRecord is then in that folder alone.
GivenFolder(r) ==
    IF last.op = "assignFolder" /\ r.id \in Range(last.args[1]) THEN last.args[2]
    ELSE IF /\ last.op = "upsertRecord"
            /\ r.recordType = "literature"
            /\ r.zoteroItemID = last.args[1].zoteroItemID THEN last.args[2]
    ELSE Undefined

C2_DefaultExclusive ==
    /\ \A r \in Range(Store.records) :
           FolderIDsOfRecord(Store, r.id) \cap DefaultIDs(Store) # {}
               => FolderIDsOfRecord(Store, r.id) = DefaultIDs(Store)
    /\ Settled("assignFolder") \/ Settled("upsertRecord") =>
           \A r \in Range(Store.records) :
               /\ FolderIDsOfRecord(StoreBefore, r.id) = DefaultIDs(StoreBefore)
               /\ GivenFolder(r).tag = "number"
               /\ GivenFolder(r).id \notin DefaultIDs(StoreBefore)
               => FolderIDsOfRecord(Store, r.id) = {GivenFolder(r).id}

C2_Witness ==
    /\ Settled("assignFolder")
    /\ \E r \in Range(Store.records) :
           /\ DefaultIDs(StoreBefore) # {}
           /\ FolderIDsOfRecord(StoreBefore, r.id) = DefaultIDs(StoreBefore)
           /\ GivenFolder(r).tag = "number"
           /\ GivenFolder(r).id \notin DefaultIDs(StoreBefore)
           /\ FolderIDsOfRecord(Store, r.id) = {GivenFolder(r).id}

\* The store an operation works on when it starts from the file f.
Loaded(f) == loadStoreData(f).store

\* C5: deleteFolder of the default folder, mergeFolders over a list holding
\* the default folder and removeFromFolder (of some record ids) from the
\* default folder throw and leave the store as it was, and after every
\* operation the default folder is in the store under the id it had.
AgainstDefault ==
    \/ /\ last.op = "deleteFolder"
       /\ last.args[1] \in DefaultIDs(Loaded(last.before))
    \/ /\ last.op = "mergeFolders"
       /\ Range(last.args[1]) \cap DefaultIDs(Loaded(last.before)) # {}
    \/ /\ last.op = "removeFromFolder"
       /\ normalizeIDList(last.args[1]) # <<>>
       /\ last.args[2] \in DefaultIDs(Loaded(last.before))

C5_DefaultFolderProtected ==
    /\ AgainstDefault =>
           /\ last.threw
           /\ Loaded(file) = Loaded(last.before)
           /\ last.before.text = "json" => file = last.before
    /\ last.op # "none" =>
           /\ Cardinality(DefaultIDs(Store)) = 1
           /\ DefaultIDs(Store) = DefaultIDs(Loaded(last.before))

C5_Witness ==
    /\ AgainstDefault
    /\ last.op = "mergeFolders"
    /\ last.threw
    /\ Len(last.before.data.folders) > 1
    /\ file = last.before

\* C6: no two folders of the store have names equal once trimmed and
\* lower-cased, and every folder name is non-empty, trimmed and at most 100
\* characters long.
C6_FolderNames ==
    /\ \A i, j \in 1..Len(Store.folders) :
           i # j => NameKey(Store.folders[i].name) # NameKey(Store.folders[j].name)
    /\ \A f \in Range(Store.folders) :
           /\ f.name # <<>>
           /\ trim(f.name) = f.name
           /\ Len(f.name) <= NameLimit

\* C7: createFolder("Robotics") on an empty store returns id 1 and the name
\* Robotics, and the store then holds two folders.
OnEmptyStore == last.op # "none" /\ Loaded(last.before) = Loaded(AbsentFile)

C7_RoboticsIsOne ==
    OnEmptyStore /\ last.op = "createFolder" /\ last.args = <<Robotics>> =>
        /\ ~last.threw
        /\ last.ret[1] = [id |-> 1, name |-> Robotics]
        /\ Len(Store.folders) = 2

\* C7 as amended: createFolder("Robotics") on an empty store returns id 2 (the
\* default folder holds id 1) and the name Robotics, and the store then holds
\* the default folder and Robotics.
C7_RoboticsIsTwo ==
    OnEmptyStore /\ last.op = "createFolder" /\ last.args = <<Robotics>> =>
        /\ ~last.threw
        /\ last.ret[1] = [id |-> 2, name |-> Robotics]
        /\ MapSeq(Store.folders, mapFolderRow) =
               <<[id |-> 1, name |-> DEFAULT_FOLDER_NAME], [id |-> 2, name |-> Robotics]>>

C7_Witness ==
    /\ OnEmptyStore
    /\ last.op = "createFolder"
    /\ last.args = <<Robotics>>
    /\ last.ret[1].id = 2
    /\ Len(Store.folders) = 2

\* C8: when createFolder is called again with a name equal, once trimmed and
\* lower-cased, to that of an earlier call whose folder has not left the
\* store, every call returns the same id and the calls add one folder between
\* them.
C8_CreateTwiceAddsOne ==
    \A c \in created : c.calls >= 2 => c.same /\ c.grew = 1

\* C8 as amended: every such call returns the same id, and between them the
\* calls add one folder when the name was not in the store before the first
\* call and none when it was.
C8_CreateTwiceSameFolder ==
    \A c \in created :
        /\ c.grew = (IF c.existed THEN 0 ELSE 1)
        /\ c.calls >= 2 => c.same

C8_Witness ==
    /\ last.op = "createFolder"
    /\ last.args = <<RoboticsShouted>>
    /\ \E c \in created :
           /\ c.key = NameKey(Robotics)
           /\ c.calls = 2
           /\ ~c.existed
           /\ c.grew = 1
           /\ last.ret[1] = [id |-> c.id, name |-> Robotics]

\* C9: the store holds at most one literature record per zoteroItemID, and
\* upsertRecord over the zoteroItemID of a literature record writes the
\* draft into that record, keeps its id and createdAt, and adds no record.
Literature(store, zoteroItemID) ==
    {r \in Range(store.records) :
        r.recordType = "literature" /\ r.zoteroItemID = zoteroItemID}

C9_OneRecordPerItem ==
    /\ \A r1, r2 \in Range(Store.records) :
           /\ r1.recordType = "literature"
           /\ r2.recordType = "literature"
           /\ r1.zoteroItemID = r2.zoteroItemID
           => r1 = r2
    /\ Settled("upsertRecord") =>
           \A old \in Literature(StoreBefore, last.args[1].zoteroItemID) :
               /\ Len(Store.records) = Len(StoreBefore.records)
               /\ \E new \in Literature(Store, old.zoteroItemID) :
                      /\ new.id = old.id
                      /\ new.createdAt = old.createdAt
                      /\ new.title = last.args[1].title
                      /\ new.literatureReview = last.args[1].literatureReview
                      /\ new.rawAIResponse = last.args[1].rawAIResponse
                      /\ last.ret[1].record = new

C9_Witness ==
    /\ Settled("upsertRecord")
    /\ \E old \in Literature(StoreBefore, last.args[1].zoteroItemID) :
           /\ old.title # last.args[1].title
           /\ \E new \in Literature(Store, old.zoteroItemID) :
                  /\ new.id = old.id
                  /\ new.title = last.args[1].title
                  /\ new.createdAt = old.createdAt
                  /\ new.updatedAt # old.createdAt

\* C10: upsertRecord without a folder argument leaves a new record in the
\* default folder and in no other, and leaves the folders of a record that
\* was already in the store as they were.
C10_UpsertWithoutFolder ==
    Settled("upsertRecord") /\ last.args[2] = Undefined =>
        LET id == last.ret[1].record.id
        IN /\ FolderIDsOfRecord(Store, id) = last.ret[1].folderIDs
           /\ IF Literature(StoreBefore, last.args[1].zoteroItemID) = {}
              THEN /\ id \notin Range(IDsOf(StoreBefore.records))
                   /\ FolderIDsOfRecord(Store, id) = DefaultIDs(Store)
              ELSE {l \in Range(Store.recordFolderLinks) : l.recordID = id} =
                       {l \in Range(StoreBefore.recordFolderLinks) : l.recordID = id}

C10_Witness ==
    /\ Settled("upsertRecord")
    /\ last.args[2] = Undefined
    /\ Literature(StoreBefore, last.args[1].zoteroItemID) # {}
    /\ FolderIDsOfRecord(Store, last.ret[1].record.id) = {2}
    /\ FolderIDsOfRecord(StoreBefore, last.ret[1].record.id) = {2}


\* C3: at most one body is running at any moment, and while a body runs,
\* from its read of the file to its settling, no other task reads or writes
\* the file.
C3_OneBodyInFlight ==
    /\ Cardinality({i \in 1..Len(tasks) : Running(i)}) <= 1
    /\ \A i \in 1..Len(tasks) : tasks[i].foreign = 0

C3_Witness ==
    /\ Len(tasks) = 3
    /\ tasks[1].pc = "fulfilled"
    /\ tasks[2].pc = "writing"
    /\ tasks[3].pc = "pending"

\* C4: the bodies begin in the order of the calls, each after every earlier
\* task has settled; a task is rejected only by the throw of its own body, and
\* is not rejected or held back by the throw of an earlier one; and every
\* task called begins and settles.
C4_Ordered ==
    \A i \in 1..Len(tasks) :
        /\ tasks[i].pc # "pending" =>
               /\ tasks[i].order = i
               /\ \A j \in 1..(i - 1) : HasSettled(j)
        /\ HasSettled(i) =>
               /\ tasks[i].r # <<>>
               /\ (tasks[i].pc = "rejected") = tasks[i].r[1].threw
               /\ tasks[i].err = (IF tasks[i].r[1].threw THEN "body" ELSE "none")

C4_InOrderAndEventually ==
    /\ []C4_Ordered
    /\ \A i \in 1..MaxTasks : (Len(tasks) >= i) ~> (Len(tasks) >= i /\ HasSettled(i))

C4_Witness ==
    /\ Len(tasks) = 3
    /\ tasks[1].pc = "rejected"
    /\ tasks[2].pc = "fulfilled"
    /\ tasks[2].r[1].saved
    /\ tasks[2].order = 2
    /\ tasks[3].pc = "rejected"
    /\ tasks[3].err = "body"

\* The records of the store that are in the folder.
RecordsIn(store, folderID) ==
    {l.recordID : l \in {m \in Range(store.recordFolderLinks) : m.folderID = folderID}}
        \cap Range(IDsOf(store.records))

\* The folders a merge was asked to merge, and the records they held.
MergeSources == Range(last.args[1]) \ {0}

MergedRecords == UNION {RecordsIn(Loaded(last.before), f) : f \in MergeSources}

LinkCount(store, recordID, folderID) ==
    Len(SelectSeq(store.recordFolderLinks,
                  LAMBDA l : l.recordID = recordID /\ l.folderID = folderID))

\* C11: mergeFolders of two or more existing unprotected folders into a name
\* no folder uses returns a new folder that holds exactly the records the
\* merged folders held, each linked to it once, and the merged folders are
\* no longer in the store.
MergeIntoNewName ==
    /\ last.op = "mergeFolders"
    /\ Cardinality(MergeSources) >= 2
    /\ MergeSources \subseteq FolderIDs(Loaded(last.before))
    /\ MergeSources \cap DefaultIDs(Loaded(last.before)) = {}
    /\ normalizeFolderName(last.args[2]) # <<>>
    /\ findFolderByName(Loaded(last.before), last.args[2]) = <<>>

C11_MergeIsUnion ==
    MergeIntoNewName =>
        /\ ~last.threw
        /\ last.ret[1].id \notin FolderIDs(Loaded(last.before))
        /\ last.ret[1] \in Range(MapSeq(Store.folders, mapFolderRow))
        /\ last.ret[1].name = normalizeFolderName(last.args[2])
        /\ RecordsIn(Store, last.ret[1].id) = MergedRecords
        /\ \A r \in MergedRecords : LinkCount(Store, r, last.ret[1].id) = 1
        /\ MergeSources \cap FolderIDs(Store) = {}

C11_Witness ==
    /\ MergeIntoNewName
    /\ MergeSources = {2, 3}
    /\ Cardinality(RecordsIn(Loaded(last.before), 2)) = 3
    /\ Cardinality(RecordsIn(Loaded(last.before), 3)) = 2
    /\ Cardinality(RecordsIn(Store, last.ret[1].id)) = 4

\* C12: after a mergeFolders that did not throw, whatever the new name, every
\* record that was in one of the merged folders is in the folder returned.
C12_MergedRecordsInDestination ==
    Settled("mergeFolders") => MergedRecords \subseteq RecordsIn(Store, last.ret[1].id)

\* C12 as amended: every such record is in the folder returned, except that
\* when the folder returned is the default folder a record that is also in a
\* folder that was not merged stays in that folder and out of the default
\* folder.
C12_MergedRecordsInDestinationOrElsewhere ==
    Settled("mergeFolders") =>
        \A r \in MergedRecords :
            \/ r \in RecordsIn(Store, last.ret[1].id)
            \/ /\ last.ret[1].id \in DefaultIDs(Store)
               /\ FolderIDsOfRecord(Store, r) # {}
               /\ FolderIDsOfRecord(Store, r) \subseteq
                      FolderIDsOfRecord(Loaded(last.before), r)
                          \ (MergeSources \cup DefaultIDs(Store))

C12_Witness ==
    /\ Settled("mergeFolders")
    /\ last.ret[1].id \in DefaultIDs(Store)
    /\ \E r \in MergedRecords : r \in RecordsIn(Store, last.ret[1].id)
    /\ \E r \in MergedRecords : r \notin RecordsIn(Store, last.ret[1].id)

\* The operation was given the id of a folder that is not in the store.
MissingFolderGiven ==
    LET ids == FolderIDs(Loaded(last.before))
        missing(f) == f.tag = "number" /\ f.id \notin ids
    IN \/ last.op = "deleteFolder" /\ last.args[1] \notin ids
       \/ last.op = "mergeFolders" /\ ~(MergeSources \subseteq ids)
       \/ last.op = "assignFolder" /\ missing(last.args[2])
       \/ last.op = "removeFromFolder" /\ last.args[2] \notin ids
       \/ last.op = "upsertRecord" /\ missing(last.args[2])
       \/ last.op = "createFolderSummaryRecord" /\ missing(last.args[1].folderID)

\* C13: an operation given a folder id that names no folder of the store
\* (deleteFolder, mergeFolders with such an id in its list, assignFolder,
\* removeFromFolder, upsertRecord or createFolderSummaryRecord with a folderID)
\* throws and leaves the store as it was.
C13_MissingFolderFails ==
    MissingFolderGiven => last.threw /\ Loaded(file) = Loaded(last.before)

\* C14: an operation that throws has not written the file, and the store the
\* next operation loads is the one that was persisted before it.
C14_ThrowWritesNothing ==
    last.threw => last.writes = 0 /\ file = last.before /\ Loaded(file) = Loaded(last.before)

\* C14 as amended: an operation that throws has written nothing of its own;
\* the only write is the one by which the load creates a file that was absent
\* (or did not parse), and that file holds the empty store the load returned,
\* so the next operation loads the store the failed one loaded.
C14_ThrowWritesOnlyTheCreatedFile ==
    last.threw =>
        /\ Loaded(file) = Loaded(last.before)
        /\ IF last.before.text = "json"
           THEN last.writes = 0 /\ file = last.before
           ELSE last.writes = 1 /\ file = JSONFile(Loaded(last.before))

C14_Witness ==
    /\ last.threw
    /\ last.op = "upsertRecord"
    /\ last.before.text = "json"
    /\ StoreBefore.records # <<>>
    /\ MissingFolderGiven
    /\ last.writes = 0

\* C18: an operation that finds a text in the file that does not parse leaves
\* a file that parses, and settles and leaves the file exactly as it does
\* when it finds no file: it runs on a new empty store that the load wrote.
C18_UnparseableFileRecreated ==
    [][(file.text = "unparseable" /\ steps' # steps) =>
          LET ld == loadStoreData(AbsentFile)
              r == Body(last'.op, last'.args, ld.store, now)
          IN /\ file'.text = "json"
             /\ last'.writes >= 1
             /\ last'.threw = r.threw
             /\ last'.ret = r.ret
             /\ file' = FileAfter(AbsentFile, ld, r)
             /\ ld.store.folders = <<[id |-> 1, name |-> DEFAULT_FOLDER_NAME]>>
             /\ ld.store.nextIDs = [folder |-> 2, record |-> 1, event |-> 1]]_vars

C18_Witness ==
    /\ last.before.text = "unparseable"
    /\ Settled("upsertRecord")
    /\ Len(Store.records) = 1
    /\ Store.nextIDs.record = 2

\* The record of the store with the id.
RecordOf(store, id) == CHOOSE r \in Range(store.records) : r.id = id

\* C15: deleteRecords(ids) removes exactly the records of the store that ids
\* names, with all their links, and returns how many they are; every other
\* record stays, a folder summary that stays names none of the deleted
\* records as a source, and its updatedAt is set by the call exactly when an
\* entry was pruned from its source lists (it is otherwise left as it was).
C15_DeleteRecords ==
    [][(steps' # steps /\ last'.op = "deleteRecords") =>
          LET before == Loaded(file)
              after == IF last'.writes > 0 THEN file'.data ELSE before
              named == Range(last'.args[1]) \cap Range(IDsOf(before.records))
              items == {RecordOf(before, id).zoteroItemID : id \in named} \ {0}
              pruned(old) == \/ Range(old.sourceRecordIDs) \cap named # {}
                             \/ Range(old.sourceZoteroItemIDs) \cap items # {}
          IN /\ ~last'.threw
             /\ last'.ret = <<Cardinality(named)>>
             /\ last'.writes = 0 => named = {} /\ file' = file
             /\ IDsOf(after.records) =
                    SelectSeq(IDsOf(before.records), LAMBDA id : id \notin named)
             /\ after.recordFolderLinks =
                    SelectSeq(before.recordFolderLinks, LAMBDA l : l.recordID \notin named)
             /\ \A r \in Range(after.records) :
                    LET old == RecordOf(before, r.id)
                    IN /\ Range(r.sourceRecordIDs) \cap named = {}
                       /\ r.sourceRecordIDs =
                              SelectSeq(old.sourceRecordIDs, LAMBDA id : id \notin named)
                       /\ pruned(old) => r.updatedAt = now
                       /\ ~pruned(old) => r = old]_vars

C15_Witness ==
    /\ Settled("deleteRecords")
    /\ last.ret = <<2>>
    /\ \E r \in Range(Store.records) :
           /\ r.recordType = "folderSummary"
           /\ r.sourceRecordIDs = <<3>>
           /\ RecordOf(Loaded(last.before), r.id).sourceRecordIDs = <<1, 3>>
           /\ r.updatedAt # RecordOf(Loaded(last.before), r.id).updatedAt
    /\ \E r \in Range(Store.records) : r = RecordOf(Loaded(last.before), r.id)

\* The folder summaries of the store.
Summaries(store) == {r \in Range(store.records) : r.recordType = "folderSummary"}

\* C16: a createFolderSummaryRecord that returns has added one record to the
\* store, a folder summary under an id no record had, and has left every
\* other record as it was; the new record's sourceRecordIDs are the ids of
\* the rows given, each once.  Every operation other than deleteRecords
\* leaves every folder summary in the store with its sourceRecordIDs as they
\* were.
C16_SummarySources ==
    [][(steps' # steps) =>
          LET before == Loaded(file)
              after == file'.data
              new == after.records[Len(after.records)]
              rows == last'.args[1].sourceRows
          IN /\ (last'.op = "createFolderSummaryRecord" /\ ~last'.threw) =>
                    /\ Len(after.records) = Len(before.records) + 1
                    /\ SubSeq(after.records, 1, Len(before.records)) = before.records
                    /\ new.id \notin Range(IDsOf(before.records))
                    /\ new.id = last'.ret[1].record.id
                    /\ new.recordType = "folderSummary"
                    /\ Range(new.sourceRecordIDs) = {rows[i].id : i \in 1..Len(rows)}
                    /\ Cardinality(Range(new.sourceRecordIDs)) = Len(new.sourceRecordIDs)
             /\ last'.op # "deleteRecords" =>
                    \A r \in Summaries(file.data) :
                        \E q \in Summaries(after) :
                            q.id = r.id /\ q.sourceRecordIDs = r.sourceRecordIDs]_vars

C16_Witness ==
    /\ Settled("upsertRecord")
    /\ last.ret[1].record.id = 1
    /\ \E r \in Summaries(Store) : r.id = 6 /\ r.sourceRecordIDs = <<1, 2>>
    /\ \E r \in Summaries(Store) : r.id = 5 /\ r.sourceRecordIDs = <<1, 3>>

\* The listings a caller can ask for, before limit and offset.
MaxLimit == 3

Orderings ==
    {Filters("all", folderID, sortKey, sortDir, NoNumber, NoNumber) :
        folderID \in {Undefined, FolderNumber(2)},
        sortKey \in {"updatedAt", "title"}, sortDir \in {"asc", "desc"}}

Unpaginated(filters) == [filters EXCEPT !.limit = NoNumber, !.offset = NoNumber]

\* a is listed before b: by the sort value in the direction asked for, and
\* by the greater id when the sort values are equal.
ListedBefore(a, b, filters) ==
    LET av == SortValue(a, filters.sortKey)
        bv == SortValue(b, filters.sortKey)
    IN IF av # bv
       THEN IF filters.sortDir = "asc" THEN StringLess(av, bv) ELSE StringLess(bv, av)
       ELSE a.id > b.id

\* The pages of limit rows at offsets offset, offset + limit, ... one after
\* the other, for a listing of total rows.
RECURSIVE PagesFrom(_, _, _, _, _)
PagesFrom(store, filters, limit, offset, total) ==
    IF offset >= total THEN <<>>
    ELSE listReviewRecords(store, [filters EXCEPT !.limit = <<limit>>,
                                                  !.offset = <<offset>>]).ret
             \o PagesFrom(store, filters, limit, offset + limit, total)

\* C17: a listing is in one total order: by the sort field in the direction
\* asked for and, for equal sort values, by id descending in both
\* directions.  No record is listed twice; the pages of limit L at offsets
\* 0, L, 2L, ... one after the other are the listing without limit, and
\* countRecords returns its length.  A call of listRecords returns the rows
\* of that listing from its offset on, and a call of countRecords its length.
C17_ListingOrderAndPages ==
    /\ \A filters \in Orderings :
           LET all == listReviewRecords(Loaded(file), filters).ret
           IN /\ \A i, j \in 1..Len(all) :
                     i < j => ListedBefore(all[i].record, all[j].record, filters)
              /\ \A L \in 1..MaxLimit :
                     PagesFrom(Loaded(file), filters, L, 0, Len(all)) = all
              /\ countReviewRecords(Loaded(file), filters).ret = <<Len(all)>>
    /\ last.op \in {"listRecords", "countRecords"} =>
           LET filters == last.args[1]
               all == listReviewRecords(Loaded(last.before), Unpaginated(filters)).ret
               offset == IF filters.offset # <<>> /\ filters.offset[1] > 0
                         THEN filters.offset[1] ELSE 0
           IN /\ ~last.threw
              /\ \A i, j \in 1..Len(all) :
                     i < j => ListedBefore(all[i].record, all[j].record, filters)
              /\ last.op = "countRecords" => last.ret = <<Len(all)>>
              /\ last.op = "listRecords" =>
                     /\ \A i \in 1..Len(last.ret) : last.ret[i] = all[offset + i]
                     /\ Len(last.ret) =
                            IF filters.limit # <<>> /\ filters.limit[1] > 0
                            THEN Max(0, Min(filters.limit[1], Len(all) - offset))
                            ELSE Max(0, Len(all) - offset)

C17_Witness ==
    /\ last.op = "listRecords"
    /\ last.args[1].sortDir = "asc"
    /\ last.args[1].offset = <<2>>
    /\ Len(last.ret) = 2
    /\ last.ret[1].record.title = last.ret[2].record.title
    /\ last.ret[1].record.id > last.ret[2].record.id
    /\ Len(listReviewRecords(Loaded(last.before), Unpaginated(last.args[1])).ret) > 4

\* C19: the store that an operation wrote is, read back (parsed, normalised
\* and repaired once), the store that was written: the same folders, records,
\* links, events and counters.
C19_WrittenStoreReadsBackEqual ==
    last.writes > 0 => Loaded(file) = file.data

\* C20: a second repair pass leaves any store exactly as the first pass left
\* it and reports no change.
C20_RepairIdempotent ==
    file.text = "json" =>
        LET once == ensureStoreIntegrity(normalizeStoreData(file.data))
        IN ensureStoreIntegrity(once.store) = [store |-> once.store, changed |-> FALSE]

\* The chunker has returned.
Chunked == ai.pc = "chunked"

ChunkLengths == {TextLength(ai.chunks[i]) : i \in 1..Len(ai.chunks)}

\* C21 as stated: for every input text, every chunk the chunker returns is at
\* most EMBEDDING_CHUNK_CHARS (1200) characters long.
C21_ChunksWithinBudget ==
    Chunked => \A n \in ChunkLengths : n <= EMBEDDING_CHUNK_CHARS

\* C21 amended: for every input text, every chunk the chunker returns is at most
\* one and a half times EMBEDDING_CHUNK_CHARS (1800) characters long: a paragraph
\* of 1201 to 1800 characters is neither split nor packed with another.
C21_ChunksWithinOneAndAHalfBudgets ==
    Chunked => \A n \in ChunkLengths : 2 * n <= 3 * EMBEDDING_CHUNK_CHARS

\* The chunker has returned several chunks, one of them longer than the budget.
C21_Witness ==
    /\ Chunked
    /\ Len(ai.chunks) > 1
    /\ \E n \in ChunkLengths : n > EMBEDDING_CHUNK_CHARS

\* The paragraphs of the text the chunker was given.
GivenParagraphs == Paragraphs(normalizeAttachmentText(ai.text))

\* ceil(n / EMBEDDING_CHUNK_CHARS)
SlicesOf(n) == (n + EMBEDDING_CHUNK_CHARS - 1) \div EMBEDDING_CHUNK_CHARS

\* C22: a text of one paragraph of more than 1.5 * 1200 characters comes back as
\* its ceil(L / 1200) consecutive slices of at most 1200 characters (as many of
\* them as the maximum of 12 chunks allows); whatever the text, at most
\* EMBEDDING_MAX_CHUNKS (12) chunks come back; an empty text gives no chunk.
C22_HardSplitAndAtMostTwelve ==
    Chunked =>
        /\ Len(ai.chunks) <= EMBEDDING_MAX_CHUNKS
        /\ ai.text = <<>> => ai.chunks = <<>>
        /\ IF Len(GivenParagraphs) = 1
           THEN LET p == GivenParagraphs[1]
                IN isLongParagraph(p) =>
                    /\ Len(ai.chunks) = Min(SlicesOf(TextLength(p)), EMBEDDING_MAX_CHUNKS)
                    /\ \A i \in 1..Len(ai.chunks) :
                        /\ ai.chunks[i] = TextSlice(p, (i - 1) * EMBEDDING_CHUNK_CHARS,
                                                    i * EMBEDDING_CHUNK_CHARS)
                        /\ TextLength(ai.chunks[i]) <= EMBEDDING_CHUNK_CHARS
           ELSE TRUE

\* The ranker has returned.
Selected == ai.pc = "selected"

\* The indexes the ranker selected, counted from 0 as the code counts them.
SelectedIndexes == {ai.result.selected[i] : i \in 1..Len(ai.result.selected)}

\* A vector as the provider interface promises it: an array of finite numbers.
AllFinite(raw) ==
    /\ raw.kind = "array"
    /\ raw.items # <<>>
    /\ \A i \in 1..Len(raw.items) : isFinite(raw.items[i])

HasNonFinite(raw) ==
    /\ raw.kind = "array"
    /\ \E i \in 1..Len(raw.items) : ~isFinite(raw.items[i])

ZeroNorm(raw) == LET v == toNumericVector(raw) IN Dot(v, v, Len(v)) = 0

\* The candidate at index i (from 0).
Candidate(i) == ai.docs[i + 1]

\* A candidate the ranker's contract lets in: finite numbers, as many as the
\* query has, and not all of them zero.
ValidCandidate(i) ==
    /\ AllFinite(Candidate(i))
    /\ Len(Candidate(i).items) = Len(ai.query.items)
    /\ ~ZeroNorm(Candidate(i))

ValidIndexes == {i \in 0..(Len(ai.docs) - 1) : ValidCandidate(i)}

CosineOf(i) == cosineSimilarity(toNumericVector(ai.query), toNumericVector(Candidate(i)))

\* Scenario E: query [1,0] against [[1,0],[0,1],[0.7,0.7]], the two best.
ScenarioE ==
    selectTop(rankedFrom(<<1, 0>>,
                         <<RawVector(<<Num(1), Num(0)>>), RawVector(<<Num(0), Num(1)>>),
                           RawVector(<<Num(7), Num(7)>>)>>, 0), 2)

\* C23: for a query of finite numbers, the ranker selects min(k, number of valid
\* candidates) candidates (k is EMBEDDING_TOP_K in the program), no valid
\* candidate left out has a strictly higher cosine similarity than a selected
\* one, the selected indexes come back in strictly increasing order, and the
\* two best of scenario E are the indexes 0 and 2.
C23_TopKInIndexOrder ==
    (Selected /\ AllFinite(ai.query)) =>
        /\ Len(ai.result.selected) = Min(EMBEDDING_TOP_K, Cardinality(ValidIndexes))
        /\ \A i \in SelectedIndexes : \A j \in ValidIndexes \ SelectedIndexes :
               ~SimilarityLess(CosineOf(i), CosineOf(j))
        /\ \A i \in 1..(Len(ai.result.selected) - 1) :
               ai.result.selected[i] < ai.result.selected[i + 1]
        /\ [i \in 1..Len(ScenarioE) |-> ScenarioE[i].index] = <<0, 2>>

\* C24: a candidate of finite numbers that has zero norm, or has more or fewer
\* entries than the query, is never among the selected chunks.
C24_DegenerateNeverSelected ==
    (Selected /\ AllFinite(ai.query)) =>
        \A i \in SelectedIndexes :
            AllFinite(Candidate(i)) =>
                /\ ~ZeroNorm(Candidate(i))
                /\ Len(Candidate(i).items) = Len(ai.query.items)

\* C25: a vector with a non-finite entry counts as absent: a chunk with such a
\* vector is not selected, and a query with such a vector gives no context.
C25_NonFiniteIsAbsent ==
    Selected =>
        /\ \A i \in SelectedIndexes : ~HasNonFinite(Candidate(i))
        /\ HasNonFinite(ai.query) => ~ai.result.context

\* The enrichment is over: it has returned, or extractLiteratureReview has gone on.
EnrichmentOver == ai.pc \in {"returned", "aiCall", "failed"}

\* The chunks the chunker makes of the PDF text of the source.
SourceChunks == chunkTextForEmbedding(ai.source.pdfText)

\* C26: when the PDF text gives fewer than 2 chunks, no embedding call, for the
\* documents or for the query, is ever issued, on the bridge path and on the API
\* path, and the builder returns no context: the enrichment returns the base
\* content as it is.
C26_NoCallForFewChunks ==
    Len(SourceChunks) < 2 =>
        /\ ai.wrappers = <<>>
        /\ ai.pc \notin {"documents", "query"}
        /\ EnrichmentOver => (ai.context = <<>> /\ ai.result.content = ai.source.content)

\* The builder was called over HTTP with a PDF text of one chunk, and has returned.
C26_Witness ==
    /\ ai.pc = "returned"
    /\ ai.path = "api"
    /\ ai.settings.provider = "openai"
    /\ ai.settings.hasKey
    /\ Len(SourceChunks) = 1
    /\ ai.context = <<>>

\* An embedding call was rejected, timed out, or came back with a status that
\* is not OK or a body that is no JSON.
CallFailed == ai.caughtError

\* A vector that is missing or malformed: no array, no entry, or an entry that
\* is no finite number.
Malformed(raw) == ~AllFinite(raw)

\* Both calls came back, and the query vector, or the vector of every chunk, is
\* missing or malformed.
VectorsMalformed ==
    /\ ai.wrappers # <<>>
    /\ Active(ai).call = "query"
    /\ Active(ai).with = "result"
    /\ \/ Malformed(ai.queryVector)
       \/ \A i \in 1..Len(ai.chunks) : Malformed(vectorsForChunks(ai.chunks, ai.docVectors)[i])

\* The enrichment does not throw, and extractLiteratureReview does not fail of it.
EnrichmentNeverThrows ==
    /\ ai.pc # "failed"
    /\ EnrichmentOver => ~ai.result.threw

\* C27: whatever comes of the embedding calls (rejection, timeout, a status
\* that is not OK, missing or malformed vectors), the enrichment does not throw,
\* it returns the base content unchanged, and extractLiteratureReview does not
\* fail of it.
C27_EmbeddingFailureGivesBaseContent ==
    /\ EnrichmentNeverThrows
    /\ (EnrichmentOver /\ (CallFailed \/ VectorsMalformed)) =>
           ai.result.content = ai.source.content

\* The most timeout-wrapped calls one enrichment makes in the model: the
\* documents in two batches, then the query.
MaxWrappers == 3

\* The i-th timeout-wrapped call has been made.
Made(i) == Len(ai.wrappers) >= i

WrapperSettled(i) == Made(i) /\ ai.wrappers[i].settled = 1

\* What holds of every timeout-wrapped call at every moment.
WrapperSafe(i) ==
    LET w == ai.wrappers[i]
    IN /\ w.settled <= 1
       /\ w.settled = 0 <=> w.with = "none"
       /\ w.settled = 0 => (i = Len(ai.wrappers) /\ Awaited)
       /\ w.settled = 1 => w.timer # "pending"
       /\ w.with = "result" => (w.timer = "cleared" /\ w.inner = "fulfilled")
       /\ w.with = "error" => (w.timer = "cleared" /\ w.inner = "rejected")
       /\ w.with = "timeout" <=> w.timer = "fired"
       /\ i < Len(ai.wrappers) => (w.call = "documents" /\ w.with = "result")

\* C28: each timeout-wrapped call settles exactly once, with the call's own
\* result or error when the call comes back before the timer fires and with the
\* timeout error when the timer fires first; once it has settled its timer is
\* no longer pending; every documents call has settled, with its result, before
\* the next call is made, so before the query call is.
C28_TimeoutWrappedCallsSettleOnce ==
    /\ [](\A i \in 1..Len(ai.wrappers) : WrapperSafe(i))
    /\ \A i \in 1..MaxWrappers : Made(i) ~> WrapperSettled(i)

\* The query call lost the race to its timer after the documents call had
\* come back, and came back itself later, unheard.
C28_Witness ==
    /\ Len(ai.wrappers) = 2
    /\ ai.wrappers[1].call = "documents"
    /\ ai.wrappers[1].with = "result"
    /\ ai.wrappers[2].call = "query"
    /\ ai.wrappers[2].with = "timeout"
    /\ ai.wrappers[2].inner = "fulfilled"
    /\ ai.wrappers[2].settled = 1

\* appendCappedSection has returned.
Capped == ai.pc = "capped"

StartsWith(text, prefix) == TextTake(text, TextLength(prefix)) = prefix

EndsWith(text, suffix) ==
    /\ TextLength(text) >= TextLength(suffix)
    /\ TextDrop(text, TextLength(text) - TextLength(suffix)) = suffix

\* Some part of the section is not in the combined text.
LeftOut == ai.combined # Concat(ai.base, ai.section)

\* The characters the base leaves below the cap.
Room == MAX_SOURCE_CONTENT_CHARS - TextLength(ai.base)

\* C29 as stated: for a base of at most the cap and any section, the combined
\* text is at most MAX_SOURCE_CONTENT_CHARS long and starts with the whole base,
\* and whenever part of the section is left out it ends with the truncation marker.
C29_CappedWithMarker ==
    (Capped /\ TextLength(ai.base) <= MAX_SOURCE_CONTENT_CHARS) =>
        /\ TextLength(ai.combined) <= MAX_SOURCE_CONTENT_CHARS
        /\ StartsWith(ai.combined, ai.base)
        /\ LeftOut => EndsWith(ai.combined, TruncationMarker)

\* C29 amended: the combined text is at most the cap long and starts with the
\* whole base; when part of the section is left out and the base leaves more
\* than 32 characters below the cap, the combined text is the base, the first
\* Room - 32 characters of the section and the truncation marker; when the
\* base leaves 32 characters or fewer, the section is left out whole and the
\* combined text is the base alone, without a marker.
C29_CappedWithMarkerWhereRoom ==
    (Capped /\ TextLength(ai.base) <= MAX_SOURCE_CONTENT_CHARS) =>
        /\ TextLength(ai.combined) <= MAX_SOURCE_CONTENT_CHARS
        /\ StartsWith(ai.combined, ai.base)
        /\ LeftOut =>
            IF Room > 32
            THEN /\ EndsWith(ai.combined, TruncationMarker)
                 /\ ai.combined = Concat(Concat(ai.base, TextSlice(ai.section, 0, Room - 32)),
                                         TruncationMarker)
            ELSE ai.combined = ai.base
        /\ LeftOut <=> TextLength(ai.base) + TextLength(ai.section) > MAX_SOURCE_CONTENT_CHARS

\* A section that does not fit was cut and the marker put after it.
C29_Witness ==
    /\ Capped
    /\ LeftOut
    /\ TextLength(ai.combined) > TextLength(ai.base)
    /\ EndsWith(ai.combined, TruncationMarker)

\* The prompt has been assembled.
Prompted == ai.pc = "prompted"

\* part occurs in text, whole and unmodified.
Contains(text, part) ==
    \E i \in 0..(Len(text) - Len(part)) : SubSeq(text, i + 1, i + Len(part)) = part

\* The user's template as the builders take it, and the placeholders it has.
CustomTemplate == trim(ai.template)

HasSourcePlaceholder ==
    \/ hasPlaceholder(CustomTemplate, SourceContentPlaceholder)
    \/ hasPlaceholder(CustomTemplate, SourceContentPlaceholder2)

\* C30: for every custom template the assembled prompt contains the complete
\* source content. Where the template has the placeholder the content stands in
\* its place; where it has not, the template comes first and the content after
\* it, at the end. For the folder summary the same holds of the records'
\* content, with either, both or neither of the two placeholders.
C30_PromptKeepsSourceContent ==
    (Prompted /\ CustomTemplate # <<>>) =>
        /\ Contains(ai.prompt, ai.content)
        /\ ai.kind = "review" =>
            IF HasSourcePlaceholder
            THEN ai.prompt = replaceAll_Verbatim(
                               replaceAll_Verbatim(CustomTemplate, SourceContentPlaceholder,
                                                   ai.content),
                               SourceContentPlaceholder2, ai.content)
            ELSE /\ SubSeq(ai.prompt, 1, Len(CustomTemplate)) = CustomTemplate
                 /\ SubSeq(ai.prompt, Len(ai.prompt) - Len(ai.content) + 1, Len(ai.prompt))
                        = ai.content
        /\ ai.kind = "folder" =>
            IF hasPlaceholder(CustomTemplate, RecordsContentPlaceholder)
            THEN Contains(ai.prompt, ai.folderName)
            ELSE /\ Contains(ai.prompt, ai.folderName)
                 /\ SubSeq(ai.prompt, Len(ai.prompt) - Len(ai.content) + 1, Len(ai.prompt))
                        = ai.content


\* C32: every store operation writes the backing file at most once, whatever
\* the file held when it started (nothing, no text, a text that does not
\* parse, a store).
C32_AtMostOneWrite == last.writes <= 1

\* C32, amended: an operation writes the file at most once itself; the load
\* adds one write before it exactly when it found no text or a text that does
\* not parse, so an operation on a file that holds a store writes at most
\* once and any operation at most twice.
C32_AtMostOneWriteAfterTheLoad ==
    /\ last.writes <= 2
    /\ last.before.text = "json" => last.writes <= 1
    /\ last.writes = 2 => last.before.text \in {"absent", "empty", "unparseable"}

C32_Witness ==
    /\ last.op = "createFolder"
    /\ ~last.threw
    /\ last.before.text = "empty"
    /\ last.writes = 2


\* The store one repair pass leaves of the store the file holds.
RepairedOnce == ensureStoreIntegrity(normalizeStoreData(file.data)).store

HasDefaultFolder(store) == findFolderByName(store, DEFAULT_FOLDER_NAME) # <<>>

LinksResolve(store) ==
    \A i \in 1..Len(store.recordFolderLinks) :
        /\ store.recordFolderLinks[i].folderID \in FolderIDs(store)
        /\ store.recordFolderLinks[i].recordID \in Range(IDsOf(store.records))

LinksDistinct(store) ==
    \A i, j \in 1..Len(store.recordFolderLinks) :
        i < j => \/ store.recordFolderLinks[i].recordID # store.recordFolderLinks[j].recordID
                 \/ store.recordFolderLinks[i].folderID # store.recordFolderLinks[j].folderID

FolderNamesDistinct(store) ==
    \A i, j \in 1..Len(store.folders) :
        i < j => NameKey(store.folders[i].name) # NameKey(store.folders[j].name)

RecordsLinked(store) ==
    \A i \in 1..Len(store.records) :
        FolderIDsOfRecord(store, store.records[i].id) \cap FolderIDs(store) # {}

\* C33: one repair pass on any store leaves a store with the default folder,
\* with no link to a folder or a record that is not in it, with no (record,
\* folder) pair twice, with no two folders whose names differ in case only,
\* and with every record linked to a folder of the store.
C33_OnePassRepairs ==
    file.text = "json" =>
        /\ HasDefaultFolder(RepairedOnce)
        /\ LinksResolve(RepairedOnce)
        /\ LinksDistinct(RepairedOnce)
        /\ FolderNamesDistinct(RepairedOnce)
        /\ RecordsLinked(RepairedOnce)


\* The store the file holds as loadStoreData hands it to the repair pass.
Normalized == normalizeStoreData(file.data)

\* C34: the repair pass returns true exactly when it modified the store it
\* was given (a default folder created, a link dropped or added, a folder
\* removed, a counter raised), and false only when it left the store as it was.
C34_ChangedIffModified ==
    file.text = "json" =>
        (ensureStoreIntegrity(Normalized).changed
            <=> ensureStoreIntegrity(Normalized).store # Normalized)


\* A store that needs no repair of its folders and links.
Sound(store) ==
    /\ HasDefaultFolder(store)
    /\ LinksResolve(store)
    /\ LinksDistinct(store)
    /\ FolderNamesDistinct(store)
    /\ RecordsLinked(store)

\* The file the latest operation started on holds a store that needs repair.
StartedOnUnsound == last.before.text = "json" /\ ~Sound(normalizeStoreData(last.before.data))

\* C35: once initReviewStore or any other operation has completed on a file
\* whose store needed repair (a dangling link, a record without links, a
\* repeated folder name or link, no default folder), the file holds the
\* repaired store.
C35_FileRepairedAfterOperation ==
    last.op # "none" /\ StartedOnUnsound => Sound(normalizeStoreData(file.data))


\* The three kinds of entity that carry an id, with the counter of each.
Kinds ==
    {[list |-> "folders", key |-> "folder"], [list |-> "records", key |-> "record"],
     [list |-> "events", key |-> "event"]}

IDsIn(store, kind) == Range(IDsOf(store[kind.list]))

\* No two entities of the kind carry the same id.
DistinctIDs(store, kind) ==
    \A i, j \in 1..Len(store[kind.list]) :
        i < j => store[kind.list][i].id # store[kind.list][j].id

\* C37: an id the store assigns (to a folder, a record or an event) is the id
\* of no entity of that kind in the store and was never assigned before: the
\* store an operation works on and the store it writes hold no id twice, a new
\* id is not below the counter the file held, and the counter written is above
\* it.  The default folder the repair pass creates on a loaded file is one of
\* these assignments, also when the persisted counter is behind the ids.
C37_AssignedIDsAreFresh ==
    [][\A kind \in Kinds :
          /\ DistinctIDs(file.data, kind) => DistinctIDs(Loaded(file), kind)
          /\ DistinctIDs(file.data, kind) => DistinctIDs(file'.data, kind)
          /\ \A id \in IDsIn(file'.data, kind) \ IDsIn(file.data, kind) :
                 /\ id >= file.data.nextIDs[kind.key]
                 /\ id < file'.data.nextIDs[kind.key]
          /\ file'.data.nextIDs[kind.key] >= file.data.nextIDs[kind.key]]_vars


\* C38: the store a public operation writes to the file holds no link to a
\* record or a folder that is not in that store, also when assignFolder or
\* removeFromFolder is given ids of records that do not exist.
C38_WrittenLinksResolve == last.writes > 0 => LinksResolve(file.data)


\* The timer of an embedding call has been set.
Timed == ai.pc = "timed"

\* C36: whatever timeoutSeconds is configured (values below 10 and above 600
\* among them), each embedding call, through the plugin bridge or over HTTP,
\* runs under a timeout of 20 to 45 seconds.
C36_TimeoutWithin20And45 == Timed => ai.seconds >= 20 /\ ai.seconds <= 45

\* C36, amended: through the plugin bridge the timeout is 20 to 45 seconds
\* (45, the configured value being raised to 600 at least before the clamp);
\* over HTTP it is 20 to 120 seconds (120, for the same reason).
C36_TimeoutWithinThePathsClamp ==
    Timed =>
        /\ ai.timeoutSeconds >= DEFAULT_TIMEOUT_SECONDS
        /\ ai.path = "bridge" => ai.seconds >= 20 /\ ai.seconds <= 45 /\ ai.seconds = 45
        /\ ai.path = "api" => ai.seconds >= 20 /\ ai.seconds <= 120 /\ ai.seconds = 120

C36_Witness ==
    /\ Timed
    /\ ai.pref = PrefNumber(5)
    /\ ai.path = "api"
    /\ ai.seconds = 120


\* The source content of the extraction is longer than the cap.
SourceTooLong == TextLength(ai.source.content) > MAX_SOURCE_CONTENT_CHARS

\* C31: an extraction whose source content is longer than 100,000 characters
\* fails with the error for the user before the plugin is probed and before
\* any embedding call, provider call or plugin call is made; a content of at
\* most 100,000 characters never fails with that error.
C31_TooLongFailsBeforeAnyCall ==
    /\ SourceTooLong /\ ai.pc # "extract" =>
           /\ ai.pc = "failed"
           /\ ai.error = "tooLong"
           /\ ai.wrappers = <<>>
           /\ ai.detections = 0
    /\ ~SourceTooLong => ai.error # "tooLong"

C31_Witness ==
    /\ TextLength(ai.source.content) = MAX_SOURCE_CONTENT_CHARS + 1
    /\ ai.source.pdfText # <<>>
    /\ ai.hasConfiguredAPI
    /\ ai.pc = "failed"
    /\ ai.error = "tooLong"


\* The extraction results the store holds for the current day.
LoggedToday == countToday(Loaded(file).events, now)

\* C39: the ai_extraction_success and ai_extraction_fail events logged for the
\* current day are never more than the dailyLimit, however many times
\* handleExtractFromSelection is invoked, overlapping or not, and also when
\* the result dialog of a single run fails after its success was logged.
C39_DailyLimitHolds == ai.pc = "selection" => LoggedToday <= ai.dailyLimit


\* C40: when the folder synthesis saves its summary, every id in the
\* sourceRecordIDs of the summary is the id of a record of the store as
\* saved, also when records were deleted between the listing and the save.
C40_SummarySourcesExist ==
    ai.pc = "manager" /\ Settled("createFolderSummaryRecord") =>
        \A id \in Range(last.ret[1].record.sourceRecordIDs) :
            id \in Range(IDsOf(Store.records))

====
